---- MODULE Spec2Model ----
(***************************************************************************)
(* Model of the bytecode-intelligence pipeline of evm-bytecode-decompiler: *)
(*   - groupcall / normalizeRevertReason (src/groupcall/groupcall-viem.ts)  *)
(*   - EVM.getOpcodes                    (src/modules/evm-opcodes.ts)       *)
(*   - slotToAddress / detectProxyImplementation (same file, second half)   *)
(*   - decodeResp                        (src/modules/try-decode-resp.ts)   *)
(*   - openchain / fourByte and the resolution loop of processUserContract *)
(*     (src/helpers/signature-resolver.ts, src/groupcall/groupcall-viem.ts)*)
(*   - isCallableSignature               (src/helpers/contract-utils.ts)    *)
(* Text is modelled as a sequence of one-character strings, bytes as       *)
(* integers 0..255, hex words as sequences of hex digits 0..15.             *)
(***************************************************************************)
EXTENDS Integers, Sequences, FiniteSets, TLC

VARIABLES
    \* ---- groupcall ----
    chain,        \* the chain's answer to a read call, per calldata
    calldata,     \* the input list of calls
    settled,      \* per input position: the promise of the async callback
    arrival,      \* history: positions in the order their call completed
    gcState,      \* "idle" | "pending" | "resolved" | "rejected"
    gcResult,     \* the list groupcall resolved with
    \* ---- normalizeRevertReason ----
    nrParts,      \* history: the pieces the input text was assembled from
    nrInput,      \* the input text
    nrState,      \* "idle" | "returned"
    nrOutput,     \* the returned text
    \* ---- EVM (bytecode scanner) ----
    code,         \* this.code: the bytes of the bytecode
    opcodes,      \* this.opcodes: the instruction list (also the cache)
    pc,           \* the loop variable of getOpcodes
    reads,        \* history: the 0-based indices of this.code read so far
    evmCalls,     \* history: number of getOpcodes calls made
    evmState,     \* "constructed" | "scanning" | "returned"
    \* ---- detectProxyImplementation ----
    pxChain,      \* the chain: both storage slots, code per address, the beacon's answer
    pxPc,         \* the await the function is at, or "returned" | "rejected"
    pxLocal,      \* implementation / beaconAddress / beaconImplementation
    pxResult,     \* the returned object
    rpcLog,       \* history: the requests sent to the client, in order
    \* ---- decodeResp ----
    \* ---- signature resolution (processUserContract) ----
    rsSelectors,  \* selectorsWith0x: the selectors presented for resolution
    rsPos,        \* the position of the for-of loop in rsSelectors
    rsPc,         \* "idle" | "openchain" | "fourByte" | "classified"
    rsResolved,   \* resolvedSelectors: selector -> signature or undefined
    rsLookups,    \* history: the lookups made, in order, with what they returned
    rsCallable,   \* the keys of callableFunctions
    rsNonCallable,\* the keys of nonCallableFunctions
    \* ---- isCallableSignature ----
    csParts,      \* history: the name and parameter types the signature was built from
    csSignature,  \* the argument: a signature text or undefined
    csState,      \* "idle" | "returned"
    csResult,     \* the returned boolean
    \* ---- checkContractInNetwork ----
    ccPc,         \* "idle" | "getCode" | "detecting" | "returned" | "rejected"
    ccCode,       \* bytecode: what getCode answered for the address
    ccResult,     \* the returned object
    \* ---- multicall ----
    mcCalls,      \* calldata: the input list of calls
    mcChain,      \* the chain: what each target call does, and the aggregator
    mcPc,         \* "idle" | "awaiting" | "returned" | "rejected"
    mcRequests,   \* history: the requests sent to the client
    mcResult,     \* the list multicall resolved with
    \* ---- new EVM(bytecode) ----
    ctInput,      \* the constructor's argument, a text
    ctState,      \* "idle" | "constructed" | "threw"
    \* ---- processUserContract ----
    puPc,         \* the stage the run is at
    puBytecode,   \* what getCode answered
    puSelectors,  \* selectorsWith0x
    puAnswers,    \* history: per selector what the lookups and the read call answered
    puLookups,    \* history: the lookups made, in order
    puResolved,   \* resolvedSelectors, as the list of its entries in key order
    puCalls,      \* history: the calls handed to groupcall
    puEntries,    \* callableFunctions and nonCallableFunctions, per selector
    puNotices,    \* history: the terminal messages sent to the chat
    \* ---- decodeResp ----
    dcInput,      \* _data: undefined or a Hex value
    dcState,      \* "idle" | "returned" | "thrown"
    dcOutput,     \* the returned value
    dcTried       \* history: the types decodeAbiParameters was asked for, in order

gcVars == <<chain, calldata, settled, arrival, gcState, gcResult>>
nrVars == <<nrParts, nrInput, nrState, nrOutput>>
evmVars == <<code, opcodes, pc, reads, evmCalls, evmState>>
pxVars == <<pxChain, pxPc, pxLocal, pxResult, rpcLog>>
dcVars == <<dcInput, dcState, dcOutput, dcTried>>
rsVars == <<rsSelectors, rsPos, rsPc, rsResolved, rsLookups, rsCallable, rsNonCallable>>
csVars == <<csParts, csSignature, csState, csResult>>
ccVars == <<ccPc, ccCode, ccResult>>
mcVars == <<mcCalls, mcChain, mcPc, mcRequests, mcResult>>
ctVars == <<ctInput, ctState>>
puVars == <<puPc, puBytecode, puSelectors, puAnswers, puLookups, puResolved,
            puCalls, puEntries, puNotices>>
vars == <<gcVars, nrVars, evmVars, pxVars, dcVars, rsVars, csVars,
          ccVars, mcVars, ctVars, puVars>>

(***************************************************************************)
(* Text helpers (JavaScript String methods used by the source)             *)
(***************************************************************************)
Str_ER == <<"e","x","e","c","u","t","i","o","n"," ","r","e","v","e","r","t","e","d">>
Str_ERCaps == <<"E","x","e","c","u","t","i","o","n"," ","R","e","v","e","r","t","e","d">>
Str_ab == <<"a","b">>
Str_ten == <<"0","1","2","3","4","5","6","7","8","9">>
Str_SomeReason == <<"S","o","m","e"," ","r","e","a","s","o","n">>
Str_eleven == <<"a","b","c","d","e","f","g","h","i","j","k">>
Str_hex == <<"0","x","d","e","a","d","b","e","e","f">>
Str_colon == <<":">>
Str_space == <<" ">>
Str_colonSpace == <<":"," ">>
Str_empty == <<>>

UpperChars == <<"A","B","C","D","E","F","G","H","I","J","K","L","M",
                "N","O","P","Q","R","S","T","U","V","W","X","Y","Z">>
LowerChars == <<"a","b","c","d","e","f","g","h","i","j","k","l","m",
                "n","o","p","q","r","s","t","u","v","w","x","y","z">>

\* String.prototype.toLowerCase, per character
ToLowerChar(c) ==
    IF \E i \in 1..Len(UpperChars) : UpperChars[i] = c
    THEN LowerChars[CHOOSE i \in 1..Len(UpperChars) : UpperChars[i] = c]
    ELSE c

toLowerCase(s) == [i \in 1..Len(s) |-> ToLowerChar(s[i])]

\* the characters matched by \s and removed by trim()
WhiteSpace == {" ", "\t", "\n", "\r"}

\* s.startsWith(p)
startsWith(s, p) == Len(s) >= Len(p) /\ SubSeq(s, 1, Len(p)) = p

\* s.slice(n) for 0 <= n
sliceFrom(s, n) == IF n >= Len(s) THEN <<>> ELSE SubSeq(s, n + 1, Len(s))

\* s.slice(0, n) for 0 <= n
sliceTo(s, n) == IF n >= Len(s) THEN s ELSE SubSeq(s, 1, n)

\* s.indexOf("0x"): 0-based index of the first occurrence, -1 when absent
indexOf0x(s) ==
    LET hits == {i \in 1..(Len(s) - 1) : s[i] = "0" /\ s[i + 1] = "x"}
    IN IF hits = {} THEN -1
       ELSE (CHOOSE i \in hits : \A j \in hits : i <= j) - 1

\* removal of the longest prefix / suffix made of characters of cs
RECURSIVE stripLeft(_, _)
stripLeft(s, cs) ==
    IF s # <<>> /\ s[1] \in cs THEN stripLeft(Tail(s), cs) ELSE s

RECURSIVE stripRight(_, _)
stripRight(s, cs) ==
    IF s # <<>> /\ s[Len(s)] \in cs
    THEN stripRight(SubSeq(s, 1, Len(s) - 1), cs) ELSE s

\* s.trim()
trim(s) == stripRight(stripLeft(s, WhiteSpace), WhiteSpace)

(***************************************************************************)
(* normalizeRevertReason                                                   *)
(***************************************************************************)
ShortLimit == 10

IsShortStrict(text) == Len(text) < ShortLimit

\* groupcall-viem.ts:86  text.length <= 10
IsShort(text) == Len(text) <= ShortLimit

\* groupcall-viem.ts:66-69  text = text.slice(0, text.indexOf("0x"))
cutAtHex(text) ==
    LET hexIndex == indexOf0x(text)
    IN IF hexIndex # -1 THEN sliceTo(text, hexIndex) ELSE text

\* groupcall-viem.ts:73-76  case-insensitive removal of the prefix
dropPrefix(text) ==
    IF startsWith(toLowerCase(text), Str_ER)
    THEN sliceFrom(text, Len(Str_ER)) ELSE text

\* groupcall-viem.ts:79-80  replace(/^[:\s]+/, "") then replace(/[:\s]+$/, "")
stripSeparators(text) ==
    stripRight(stripLeft(text, WhiteSpace \cup {":"}), WhiteSpace \cup {":"})

\* groupcall-viem.ts:59-91
normalizeRevertReason(input) ==
    IF input = <<>> THEN Str_ER
    ELSE LET t1 == trim(cutAtHex(input))
             t2 == trim(dropPrefix(t1))
             text == stripSeparators(t2)
         IN IF text = <<>> THEN Str_ER
            ELSE IF IsShort(text) THEN Str_ER \o Str_colonSpace \o text
            ELSE text

(***************************************************************************)
(* normalizeRevertReason applied to assembled error texts                  *)
(***************************************************************************)
NrLeads == {Str_empty, Str_space}
NrPrefixes == {Str_empty, Str_ER, Str_ERCaps}
NrSeps == {Str_empty, Str_colon, Str_colonSpace}
NrPayloads == {Str_empty, Str_hex \o Str_space}
NrBodies == {Str_empty, Str_ab, Str_ten, Str_SomeReason, Str_eleven}
NrTails == {Str_empty, Str_space, Str_colon, Str_space \o Str_hex}

NrPartsSet ==
    [lead : NrLeads, prefix : NrPrefixes, sep : NrSeps,
     payload : NrPayloads, body : NrBodies, tail : NrTails]

Assemble(p) == p.lead \o p.prefix \o p.sep \o p.payload \o p.body \o p.tail

GcIdle ==
    /\ chain = <<>>
    /\ calldata = <<>>
    /\ settled = <<>>
    /\ arrival = <<>>
    /\ gcState = "idle"
    /\ gcResult = <<>>

NrIdle ==
    /\ nrParts = [lead |-> Str_empty, prefix |-> Str_empty, sep |-> Str_empty,
                  payload |-> Str_empty, body |-> Str_empty, tail |-> Str_empty]
    /\ nrInput = <<>>
    /\ nrState = "idle"
    /\ nrOutput = <<>>

EvmIdle ==
    /\ code = <<>>
    /\ opcodes = <<>>
    /\ pc = 0
    /\ reads = {}
    /\ evmCalls = 0
    /\ evmState = "constructed"

PxIdle ==
    /\ pxChain = <<>>
    /\ pxPc = "idle"
    /\ pxLocal = <<>>
    /\ pxResult = <<>>
    /\ rpcLog = <<>>

DcIdle ==
    /\ dcInput = <<>>
    /\ dcState = "idle"
    /\ dcOutput = <<>>
    /\ dcTried = <<>>

RsIdle ==
    /\ rsSelectors = <<>>
    /\ rsPos = 0
    /\ rsPc = "idle"
    /\ rsResolved = <<>>
    /\ rsLookups = <<>>
    /\ rsCallable = {}
    /\ rsNonCallable = {}

CsIdle ==
    /\ csParts = <<>>
    /\ csSignature = <<>>
    /\ csState = "idle"
    /\ csResult = FALSE

CcIdle ==
    /\ ccPc = "idle"
    /\ ccCode = <<>>
    /\ ccResult = <<>>

McIdle ==
    /\ mcCalls = <<>>
    /\ mcChain = <<>>
    /\ mcPc = "idle"
    /\ mcRequests = <<>>
    /\ mcResult = <<>>

CtIdle ==
    /\ ctInput = <<>>
    /\ ctState = "idle"

PuIdle ==
    /\ puPc = "idle"
    /\ puBytecode = <<>>
    /\ puSelectors = <<>>
    /\ puAnswers = <<>>
    /\ puLookups = <<>>
    /\ puResolved = <<>>
    /\ puCalls = <<>>
    /\ puEntries = <<>>
    /\ puNotices = <<>>

InitNormalize ==
    /\ nrParts \in NrPartsSet
    /\ nrInput = Assemble(nrParts)
    /\ nrState = "idle"
    /\ nrOutput = <<>>
    /\ GcIdle
    /\ EvmIdle
    /\ PxIdle
    /\ DcIdle
    /\ RsIdle
    /\ CsIdle
    /\ CcIdle
    /\ McIdle
    /\ CtIdle
    /\ PuIdle

\* one call of normalizeRevertReason(nrInput)
NormalizeCall ==
    /\ nrState = "idle"
    /\ nrOutput' = normalizeRevertReason(nrInput)
    /\ nrState' = "returned"
    /\ UNCHANGED <<nrParts, nrInput, gcVars, evmVars, pxVars, dcVars, rsVars, csVars, ccVars, mcVars, ctVars, puVars>>

NextNormalize == NormalizeCall

SpecNormalize == InitNormalize /\ [][NextNormalize]_vars

(***************************************************************************)
(* groupcall: Promise.all over one async callback per input call           *)
(***************************************************************************)
MaxCalls == 3

Selectors == {"0x06fdde03", "0x95d89b41", "0x313ce567"}
ContractAddr == "0xC0"

\* what client.call does for one request: fulfils with result.data, fulfils
\* with no data, or throws an error with or without a string `details`
CallResponses ==
    {[kind |-> "data", data |-> "0xaa"],
     [kind |-> "data", data |-> "0xbb"],
     [kind |-> "nodata"],
     [kind |-> "error", details |-> Str_ER \o Str_colonSpace \o Str_SomeReason],
     [kind |-> "errorNoDetails"]}

Throws(resp) == resp.kind \in {"error", "errorNoDetails"}

\* groupcall-viem.ts:29-33
SuccessOutcome(resp) ==
    [success |-> TRUE,
     returnData |-> IF resp.kind = "data" THEN resp.data ELSE "0x",
     revertReason |-> <<>>]

FailureOutcomeRaw(resp) ==
    [success |-> FALSE,
     returnData |-> "0x",
     revertReason |-> IF resp.kind = "error" THEN resp.details ELSE <<>>]

\* groupcall-viem.ts:34-47
FailureOutcome(resp) ==
    [success |-> FALSE,
     returnData |-> "0x",
     revertReason |-> IF resp.kind = "error"
                      THEN normalizeRevertReason(resp.details)
                      ELSE Str_ER]

Pending == [state |-> "pending"]
Fulfilled(v) == [state |-> "fulfilled", value |-> v]
Rejected == [state |-> "rejected"]

CallbackNoCatch(resp) ==
    IF Throws(resp) THEN Rejected ELSE Fulfilled(SuccessOutcome(resp))

\* groupcall-viem.ts:21-49  the async callback: try { await client.call } catch
Callback(resp) ==
    IF Throws(resp) THEN Fulfilled(FailureOutcome(resp))
    ELSE Fulfilled(SuccessOutcome(resp))

StoreByArrival(ps, i, p) ==
    LET k == CHOOSE j \in 1..Len(ps) :
                 /\ ps[j] = Pending
                 /\ \A m \in 1..(j - 1) : ps[m] # Pending
    IN [ps EXCEPT ![k] = p]

\* groupcall-viem.ts:20-21  calldata.map keeps each promise at its call's index
StoreSettled(ps, i, p) == [ps EXCEPT ![i] = p]

\* groupcall-viem.ts:20  Promise.all: the values in the order of the promises
PromiseAllValues(ps) == [i \in 1..Len(ps) |-> ps[i].value]

CallLists ==
    UNION {[1..n -> [target : {ContractAddr}, callData : Selectors]] : n \in 0..MaxCalls}

InitGroupcall ==
    /\ chain \in [Selectors -> CallResponses]
    /\ calldata \in CallLists
    /\ settled = <<>>
    /\ arrival = <<>>
    /\ gcState = "idle"
    /\ gcResult = <<>>
    /\ NrIdle
    /\ EvmIdle
    /\ PxIdle
    /\ DcIdle
    /\ RsIdle
    /\ CsIdle
    /\ CcIdle
    /\ McIdle
    /\ CtIdle
    /\ PuIdle

\* groupcall-viem.ts:15-21  groupcall(client, account, calldata): every call is
\* issued before any of them is awaited
Groupcall ==
    /\ gcState = "idle"
    /\ settled' = [i \in 1..Len(calldata) |-> Pending]
    /\ gcState' = "pending"
    /\ UNCHANGED <<chain, calldata, arrival, gcResult, nrVars, evmVars, pxVars, dcVars, rsVars, csVars, ccVars, mcVars, ctVars, puVars>>

\* groupcall-viem.ts:22-48  the call of position i completes and its callback runs
CallSettles(i) ==
    /\ gcState = "pending"
    /\ settled[i] = Pending
    /\ settled' = StoreSettled(settled, i, Callback(chain[calldata[i].callData]))
    /\ arrival' = Append(arrival, i)
    /\ UNCHANGED <<chain, calldata, gcState, gcResult, nrVars, evmVars, pxVars, dcVars, rsVars, csVars, ccVars, mcVars, ctVars, puVars>>

\* groupcall-viem.ts:20  Promise.all settles: rejected as soon as one promise is,
\* fulfilled once all are
PromiseAll ==
    /\ gcState = "pending"
    /\ \/ \E i \in 1..Len(settled) : settled[i] = Rejected
       \/ \A i \in 1..Len(settled) : settled[i].state = "fulfilled"
    /\ IF \E i \in 1..Len(settled) : settled[i] = Rejected
       THEN gcState' = "rejected" /\ gcResult' = gcResult
       ELSE gcState' = "resolved" /\ gcResult' = PromiseAllValues(settled)
    /\ UNCHANGED <<chain, calldata, settled, arrival, nrVars, evmVars, pxVars, dcVars, rsVars, csVars, ccVars, mcVars, ctVars, puVars>>

NextGroupcall ==
    \/ Groupcall
    \/ \E i \in 1..Len(calldata) : CallSettles(i)
    \/ PromiseAll

SpecGroupcall == InitGroupcall /\ [][NextGroupcall]_vars

(***************************************************************************)
(* EVM.getOpcodes: the linear bytecode walker                              *)
(***************************************************************************)
MaxCodeLen == 6
MaxEvmCalls == 2

PUSH1 == 96
PUSH32 == 127

\* the byte values the bytecodes are drawn from: STOP, PUSH1, PUSH2, PUSH4 and
\* a byte the opcode map does not name
CodeBytes == {0, 96, 97, 99, 255}

Bytecodes == UNION {[1..n -> CodeBytes] : n \in 0..MaxCodeLen}

\* evm-opcodes.ts:78-105  the mnemonic of an opcode byte; a PUSHn name is kept
\* as the pair <<"PUSH", n>>, an unnamed byte as <<"0x", byte>>
getOpcodeInfo(b) ==
    IF b >= PUSH1 /\ b <= PUSH32 THEN <<"PUSH", b - PUSH1 + 1>>
    ELSE IF b = 0 THEN <<"STOP">>
    ELSE IF b = 1 THEN <<"ADD">>
    ELSE IF b = 2 THEN <<"MUL">>
    ELSE IF b = 3 THEN <<"SUB">>
    ELSE IF b = 80 THEN <<"POP">>
    ELSE IF b = 81 THEN <<"MLOAD">>
    ELSE IF b = 82 THEN <<"MSTORE">>
    ELSE IF b = 83 THEN <<"MSTORE8">>
    ELSE IF b = 84 THEN <<"SLOAD">>
    ELSE IF b = 85 THEN <<"SSTORE">>
    ELSE IF b = 86 THEN <<"JUMP">>
    ELSE IF b = 87 THEN <<"JUMPI">>
    ELSE IF b = 88 THEN <<"PC">>
    ELSE IF b = 89 THEN <<"MSIZE">>
    ELSE IF b = 90 THEN <<"GAS">>
    ELSE IF b = 91 THEN <<"JUMPDEST">>
    ELSE IF b = 240 THEN <<"CREATE">>
    ELSE IF b = 241 THEN <<"CALL">>
    ELSE IF b = 242 THEN <<"CALLCODE">>
    ELSE IF b = 243 THEN <<"RETURN">>
    ELSE IF b = 244 THEN <<"DELEGATECALL">>
    ELSE IF b = 250 THEN <<"STATICCALL">>
    ELSE IF b = 253 THEN <<"REVERT">>
    ELSE IF b = 255 THEN <<"SELFDESTRUCT">>
    ELSE <<"0x", b>>

\* evm-opcodes.ts:57  opcodeInfo.name.startsWith('PUSH')
IsPush(name) == name[1] = "PUSH"

\* evm-opcodes.ts:58  parseInt(opcodeInfo.name.replace('PUSH', ''), 10)
pushSizeOf(name) == name[2]

Min(a, b) == IF a <= b THEN a ELSE b

bufSliceOneMore(buf, from, to) ==
    IF from >= Min(to + 1, Len(buf)) THEN <<>>
    ELSE SubSeq(buf, from + 1, Min(to + 1, Len(buf)))

\* Buffer.slice(from, to) with 0 <= from: the end is clamped to the length
bufSlice(buf, from, to) ==
    IF from >= Min(to, Len(buf)) THEN <<>>
    ELSE SubSeq(buf, from + 1, Min(to, Len(buf)))

\* the indices Buffer.slice(from, to) reads
bufSliceIndices(buf, from, to) == from..(Min(to, Len(buf)) - 1)

PushFitsShort(p, pushSize, len) == p + pushSize + 1 < len

PushFitsLong(p, pushSize, len) == p + pushSize <= len

\* evm-opcodes.ts:59  pc + pushSize < this.code.length
PushFits(p, pushSize, len) == p + pushSize < len

CachedNever(ops) == FALSE

\* evm-opcodes.ts:42  this.opcodes.length > 0
Cached(ops) == Len(ops) > 0

InitScan ==
    /\ code \in Bytecodes
    /\ opcodes = <<>>
    /\ pc = 0
    /\ reads = {}
    /\ evmCalls = 0
    /\ evmState = "constructed"
    /\ GcIdle
    /\ NrIdle
    /\ PxIdle
    /\ DcIdle
    /\ RsIdle
    /\ CsIdle
    /\ CcIdle
    /\ McIdle
    /\ CtIdle
    /\ PuIdle

\* evm-opcodes.ts:41-46  getOpcodes() is called: the cached list is returned when
\* it is not empty, otherwise the loop starts at pc = 0
GetOpcodes ==
    /\ evmState \in {"constructed", "returned"}
    /\ evmCalls < MaxEvmCalls
    /\ evmCalls' = evmCalls + 1
    /\ IF Cached(opcodes)
       THEN evmState' = "returned" /\ pc' = pc
       ELSE evmState' = "scanning" /\ pc' = 0
    /\ UNCHANGED <<code, opcodes, reads, gcVars, nrVars, pxVars, dcVars, rsVars, csVars, ccVars, mcVars, ctVars, puVars>>

\* evm-opcodes.ts:46-66  one iteration of the loop, its pc++ included
ScanStep ==
    /\ evmState = "scanning"
    /\ pc < Len(code)
    /\ LET opcodeByte == code[pc + 1]
           name == getOpcodeInfo(opcodeByte)
           currentOp == [name |-> name, opcode |-> opcodeByte, pc |-> pc]
           withData == IsPush(name) /\ PushFits(pc, pushSizeOf(name), Len(code))
       IN IF withData
          THEN /\ opcodes' = Append(opcodes,
                      [name |-> name, opcode |-> opcodeByte, pc |-> pc,
                       pushData |-> bufSlice(code, pc + 1, pc + pushSizeOf(name) + 1)])
               /\ reads' = reads \cup {pc}
                      \cup bufSliceIndices(code, pc + 1, pc + pushSizeOf(name) + 1)
               /\ pc' = pc + pushSizeOf(name) + 1
          ELSE /\ opcodes' = Append(opcodes, currentOp)
               /\ reads' = reads \cup {pc}
               /\ pc' = pc + 1
    /\ UNCHANGED <<code, evmCalls, evmState, gcVars, nrVars, pxVars, dcVars, rsVars, csVars, ccVars, mcVars, ctVars, puVars>>

\* evm-opcodes.ts:46,68  the loop condition fails and the list is returned
ScanReturn ==
    /\ evmState = "scanning"
    /\ ~(pc < Len(code))
    /\ evmState' = "returned"
    /\ UNCHANGED <<code, opcodes, pc, reads, evmCalls, gcVars, nrVars, pxVars, dcVars, rsVars, csVars, ccVars, mcVars, ctVars, puVars>>

NextScan == GetOpcodes \/ ScanStep \/ ScanReturn

SpecScan == InitScan /\ [][NextScan]_vars

(***************************************************************************)
(* slotToAddress and detectProxyImplementation (EIP-1967)                  *)
(* A Hex value "0x..." is the sequence of its hex digits after the prefix.  *)
(***************************************************************************)
AddressDigits == 40
WordDigits == 64

IMPLEMENTATION_SLOT == "0x360894a13ba1a3210667c828492db98dca3e2076cc3735a920a3ca505d382bbc"
BEACON_SLOT == "0xa3f0ad74e5423aebfd80d3ef4346578335a9a72aeaee59ff6cb3582b35133d50"
BEACON_IMPLEMENTATION_SELECTOR == "0x5c60da1b"

\* evm-opcodes.ts:189
zeroAddress == [i \in 1..AddressDigits |-> 0]

Undefined == [kind |-> "undefined"]
Hex(digits) == [kind |-> "hex", digits |-> digits]

\* the two addresses storage words and beacon answers point at
AddrA == [i \in 1..AddressDigits |-> IF i = AddressDigits THEN 10 ELSE 0]
AddrB == [i \in 1..AddressDigits |-> IF i = 1 THEN 11 ELSE 0]
ProxyAddr == [i \in 1..AddressDigits |-> 12]

\* a 32-byte word: `high` in the digit just above the low 20 bytes, then addr
Word(high, addr) ==
    [i \in 1..WordDigits |->
        IF i <= WordDigits - AddressDigits
        THEN (IF i = WordDigits - AddressDigits THEN high ELSE 0)
        ELSE addr[i - (WordDigits - AddressDigits)]]

StorageWords ==
    {Word(0, zeroAddress), Word(1, zeroAddress),
     Word(0, AddrA), Word(1, AddrA), Word(0, AddrB)}

\* what getStorageAt resolves with
StorageAnswers == {Undefined, Hex(<<>>)} \cup {Hex(w) : w \in StorageWords}

\* what getCode resolves with
CodeOf(a) == IF a = AddrA THEN "0x60aa" ELSE "0x60bb"
CodeAnswers(a) == {"undefined", "0x", CodeOf(a)}

\* what client.call to the beacon does: resolves with data, resolves without
\* data, or throws (the call reverted)
BeaconAnswers ==
    {[kind |-> "throw"], [kind |-> "data", data |-> Undefined],
     [kind |-> "data", data |-> Hex(<<>>)],
     [kind |-> "data", data |-> Hex(<<0, 1>>)]}
    \cup {[kind |-> "data", data |-> Hex(w)] : w \in StorageWords}

lowDigitsLeftAligned(digits, n) == SubSeq(digits, 1, Min(n, Len(digits)))

\* evm-opcodes.ts:147  value.slice(-40) where the value holds at least 40 digits
lowDigits(digits, n) == SubSeq(digits, Len(digits) - n + 1, Len(digits))

Null == [kind |-> "null"]
Thrown == [kind |-> "throw"]
Address(a) == [kind |-> "address", addr |-> a]

\* evm-opcodes.ts:142-154  slotToAddress; with fewer than 40 digits slice(-40)
\* keeps the "x" of the prefix and getAddress throws on the malformed address
slotToAddress(value) ==
    IF value = Undefined \/ value.digits = <<>> THEN Null
    ELSE IF Len(value.digits) < AddressDigits THEN Thrown
    ELSE LET addr == lowDigits(value.digits, AddressDigits)
         IN IF addr = zeroAddress THEN Null ELSE Address(addr)

HasCodeLoose(c) == c # "undefined"

\* evm-opcodes.ts:210,250  code && code !== "0x"
HasCode(c) == c # "undefined" /\ c # "0x"

\* evm-opcodes.ts:191-196
emptyResult(address) ==
    [isProxy |-> FALSE, proxy |-> address,
     implementation |-> zeroAddress, implementationBytecode |-> "0x"]

proxyResultNoCode(address, impl, bytecode) ==
    [isProxy |-> TRUE, proxy |-> address,
     implementation |-> impl, implementationBytecode |-> "0x"]

\* evm-opcodes.ts:211-216, 254-259
proxyResult(address, impl, bytecode) ==
    [isProxy |-> TRUE, proxy |-> address,
     implementation |-> impl, implementationBytecode |-> bytecode]

PxChains ==
    [implSlot : StorageAnswers, beaconSlot : StorageAnswers,
     codeA : CodeAnswers(AddrA), codeB : CodeAnswers(AddrB),
     beaconCall : BeaconAnswers]

\* the chain's code at an address
getCode(a) == IF a = AddrA THEN pxChain.codeA ELSE pxChain.codeB

InitProxy ==
    /\ pxChain \in PxChains
    /\ pxPc = "idle"
    /\ pxLocal = <<>>
    /\ pxResult = <<>>
    /\ rpcLog = <<>>
    /\ GcIdle
    /\ NrIdle
    /\ EvmIdle
    /\ DcIdle
    /\ RsIdle
    /\ CsIdle
    /\ CcIdle
    /\ McIdle
    /\ CtIdle
    /\ PuIdle

PxOther == <<gcVars, nrVars, evmVars, dcVars, rsVars, csVars, ccVars, mcVars, ctVars, puVars>>

\* detectProxyImplementation(client, ProxyAddr) is called; it runs to its first
\* await (evm-opcodes.ts:189-198)
DetectProxy ==
    /\ pxPc = "idle"
    /\ ccPc = "idle"
    /\ pxPc' = "implSlot"
    /\ rpcLog' = Append(rpcLog, <<"getStorageAt", ProxyAddr, IMPLEMENTATION_SLOT>>)
    /\ UNCHANGED <<pxChain, pxLocal, pxResult, PxOther>>

\* evm-opcodes.ts:198-206, 220  the implementation slot arrives
PxImplSlot ==
    /\ pxPc = "implSlot"
    /\ LET implementation == slotToAddress(pxChain.implSlot)
       IN CASE implementation = Thrown ->
                  /\ pxPc' = "rejected"
                  /\ UNCHANGED <<pxLocal, rpcLog>>
            [] implementation = Null ->
                  /\ pxPc' = "beaconSlot"
                  /\ rpcLog' = Append(rpcLog, <<"getStorageAt", ProxyAddr, BEACON_SLOT>>)
                  /\ UNCHANGED pxLocal
            [] OTHER ->
                  /\ pxPc' = "implCode"
                  /\ pxLocal' = implementation.addr
                  /\ rpcLog' = Append(rpcLog, <<"getCode", implementation.addr>>)
    /\ UNCHANGED <<pxChain, pxResult, PxOther>>

\* evm-opcodes.ts:206-220  the code of the slot's address arrives
PxImplCode ==
    /\ pxPc = "implCode"
    /\ LET c == getCode(pxLocal)
       IN IF HasCode(c)
          THEN /\ pxPc' = "returned"
               /\ pxResult' = proxyResult(ProxyAddr, pxLocal, c)
               /\ UNCHANGED rpcLog
          ELSE /\ pxPc' = "beaconSlot"
               /\ rpcLog' = Append(rpcLog, <<"getStorageAt", ProxyAddr, BEACON_SLOT>>)
               /\ UNCHANGED pxResult
    /\ UNCHANGED <<pxChain, pxLocal, PxOther>>

\* evm-opcodes.ts:220-231  the beacon slot arrives
PxBeaconSlot ==
    /\ pxPc = "beaconSlot"
    /\ LET beaconAddress == slotToAddress(pxChain.beaconSlot)
       IN CASE beaconAddress = Thrown ->
                  /\ pxPc' = "rejected"
                  /\ UNCHANGED <<pxLocal, pxResult, rpcLog>>
            [] beaconAddress = Null ->
                  /\ pxPc' = "returned"
                  /\ pxResult' = emptyResult(ProxyAddr)
                  /\ UNCHANGED <<pxLocal, rpcLog>>
            [] OTHER ->
                  /\ pxPc' = "beaconCall"
                  /\ pxLocal' = beaconAddress.addr
                  /\ rpcLog' = Append(rpcLog,
                         <<"call", beaconAddress.addr, BEACON_IMPLEMENTATION_SELECTOR>>)
                  /\ UNCHANGED pxResult
    /\ UNCHANGED <<pxChain, PxOther>>

\* evm-opcodes.ts:231-246  the beacon's answer arrives, or the call throws
PxBeaconCall ==
    /\ pxPc = "beaconCall"
    /\ LET beaconCall == pxChain.beaconCall
           beaconImplementation ==
               IF beaconCall.kind = "data" THEN slotToAddress(beaconCall.data) ELSE Thrown
       IN CASE beaconCall.kind = "throw" \/ beaconImplementation = Thrown ->
                  /\ pxPc' = "rejected"
                  /\ UNCHANGED <<pxLocal, pxResult, rpcLog>>
            [] beaconCall.kind = "data" /\ beaconImplementation = Null ->
                  /\ pxPc' = "returned"
                  /\ pxResult' = emptyResult(ProxyAddr)
                  /\ UNCHANGED <<pxLocal, rpcLog>>
            [] OTHER ->
                  /\ pxPc' = "beaconImplCode"
                  /\ pxLocal' = beaconImplementation.addr
                  /\ rpcLog' = Append(rpcLog, <<"getCode", beaconImplementation.addr>>)
                  /\ UNCHANGED pxResult
    /\ UNCHANGED <<pxChain, PxOther>>

\* evm-opcodes.ts:246-259  the code of the beacon's implementation arrives
PxBeaconImplCode ==
    /\ pxPc = "beaconImplCode"
    /\ LET beaconImplCode == getCode(pxLocal)
       IN /\ pxPc' = "returned"
          /\ pxResult' = IF HasCode(beaconImplCode)
                         THEN proxyResult(ProxyAddr, pxLocal, beaconImplCode)
                         ELSE emptyResult(ProxyAddr)
    /\ UNCHANGED <<pxChain, pxLocal, rpcLog, PxOther>>

(***************************************************************************)
(* checkContractInNetwork (src/helpers/network-checker.ts): the address's  *)
(* own code is fetched first, and only a contract is examined for a proxy. *)
(***************************************************************************)
\* what getCode answers for the examined address; "throw" is a failed request
OwnCodeAnswers == {"throw", "undefined", "0x", "0x60cc"}

\* network-checker.ts:30-35
notContract ==
    [isContract |-> FALSE, isProxy |-> FALSE,
     implementation |-> zeroAddress, implementationBytecode |-> "0x"]

\* network-checker.ts:41-46
contractInfo(proxyInfo) ==
    [isContract |-> TRUE,
     isProxy |-> proxyInfo.isProxy,
     implementation |-> IF proxyInfo.isProxy THEN proxyInfo.implementation
                        ELSE zeroAddress,
     implementationBytecode |-> IF proxyInfo.isProxy
                                THEN proxyInfo.implementationBytecode
                                ELSE "0x"]

CcOther == <<gcVars, nrVars, evmVars, dcVars, rsVars, csVars, mcVars, ctVars, puVars>>

\* network-checker.ts:12-26  checkContractInNetwork(rpc, ProxyAddr) is called
\* and asks for the address's code
CheckContract ==
    /\ ccPc = "idle"
    /\ pxPc = "idle"
    /\ ccPc' = "getCode"
    /\ UNCHANGED <<ccCode, ccResult, pxVars, CcOther>>

\* network-checker.ts:26-39  the code arrives; an empty one ends the check,
\* any other starts detectProxyImplementation
CcCode ==
    /\ ccPc = "getCode"
    /\ \E bytecode \in OwnCodeAnswers :
          /\ ccCode' = bytecode
          /\ IF bytecode = "throw"
             THEN /\ ccPc' = "rejected"
                  /\ UNCHANGED <<ccResult, pxVars>>
             ELSE IF ~HasCode(bytecode)
             THEN /\ ccPc' = "returned"
                  /\ ccResult' = notContract
                  /\ UNCHANGED pxVars
             ELSE /\ ccPc' = "detecting"
                  /\ pxPc' = "implSlot"
                  /\ rpcLog' = Append(rpcLog,
                                 <<"getStorageAt", ProxyAddr, IMPLEMENTATION_SLOT>>)
                  /\ UNCHANGED <<ccResult, pxChain, pxLocal, pxResult>>
    /\ UNCHANGED CcOther

\* network-checker.ts:39-46  detectProxyImplementation has ended
CcReturn ==
    /\ ccPc = "detecting"
    /\ pxPc \in {"returned", "rejected"}
    /\ IF pxPc = "rejected"
       THEN /\ ccPc' = "rejected"
            /\ UNCHANGED ccResult
       ELSE /\ ccPc' = "returned"
            /\ ccResult' = contractInfo(pxResult)
    /\ UNCHANGED <<ccCode, pxVars, CcOther>>

NextProxy ==
    \/ DetectProxy
    \/ CheckContract
    \/ CcCode
    \/ CcReturn
    \/ PxImplSlot
    \/ PxImplCode
    \/ PxBeaconSlot
    \/ PxBeaconCall
    \/ PxBeaconImplCode

SpecProxy == InitProxy /\ [][NextProxy]_vars

(***************************************************************************)
(* decodeResp: schema-less decoding of return data                         *)
(* (src/modules/try-decode-resp.ts).  A Hex value is the sequence of its    *)
(* hex digits after "0x"; return data always holds whole bytes.            *)
(***************************************************************************)
Str_couldNotDecode ==
    <<"c","o","u","l","d"," ","n","o","t"," ","d","e","c","o","d","e"," ",
      "t","h","e"," ","r","e","s","p","o","n","s","e">>
Str_57005 == <<"5","7","0","0","5">>

DigitChars == <<"0","1","2","3","4","5","6","7","8","9">>

\* the printable ASCII characters, from code 32 to code 126 (code 96, the
\* grave accent, is written "?")
AsciiTable ==
    <<" ","!","\"","#","$","%","&","'","(",")","*","+",",","-",".","/",
      "0","1","2","3","4","5","6","7","8","9",":",";","<","=",">","?",
      "@","A","B","C","D","E","F","G","H","I","J","K","L","M","N","O",
      "P","Q","R","S","T","U","V","W","X","Y","Z","[","\\","]","^","_",
      "?","a","b","c","d","e","f","g","h","i","j","k","l","m","n","o",
      "p","q","r","s","t","u","v","w","x","y","z","{","|","}","~">>

LengthOneWord == 66
LengthTwoWords == 130
LengthThreeWords == 194
SelectorLength == 10
AddressLikeMin == 35
AddressLikeMax == 51
WordBytes == 32

\* the empty string passed as _data
EmptyString == [kind |-> "empty"]

\* _data.length: the "0x" prefix and the digits
HexLength(data) == 2 + Len(data.digits)

\* size(data): the number of bytes
ByteSize(digits) == Len(digits) \div 2

\* the 32-byte word that starts at byte `at`
WordAt(digits, at) == SubSeq(digits, 2 * at + 1, 2 * at + 2 * WordBytes)

\* x * k + c on little-endian base-10000 limbs (k <= 65536, c < 65536)
MulAddLE(limbs, k, c) ==
    LET n == Len(limbs)
        carry[j \in 0..n] ==
            IF j = 0 THEN c ELSE (limbs[j] * k + carry[j - 1]) \div 10000
        body == [j \in 1..n |-> (limbs[j] * k + carry[j - 1]) % 10000]
    IN IF carry[n] = 0 THEN body \o <<>>
       ELSE IF carry[n] < 10000 THEN body \o <<carry[n]>>
       ELSE body \o <<carry[n] % 10000, carry[n] \div 10000>>

\* the value of a big-endian hex digit sequence (a multiple of four digits
\* long), as little-endian base-10000 limbs, four hex digits at a time
HexToDecLE(digits) ==
    LET group(i) == digits[4 * i - 3] * 4096 + digits[4 * i - 2] * 256
                    + digits[4 * i - 1] * 16 + digits[4 * i]
        acc[i \in 0..(Len(digits) \div 4)] ==
            IF i = 0 THEN <<>> ELSE MulAddLE(acc[i - 1], 65536, group(i))
    IN acc[Len(digits) \div 4]

\* BigInt.prototype.toString() of the value of a word: its decimal digits
\* without leading zeros
bigIntToString(word) ==
    LET limbs == HexToDecLE(word)
        n == Len(limbs)
        top == limbs[n]
        topLen == IF top >= 1000 THEN 4 ELSE IF top >= 100 THEN 3
                  ELSE IF top >= 10 THEN 2 ELSE 1
        total == 4 * (n - 1) + topLen
        pow(e) == IF e = 0 THEN 1 ELSE IF e = 1 THEN 10
                  ELSE IF e = 2 THEN 100 ELSE 1000
        decLE(p) == (limbs[(p + 3) \div 4] \div pow((p - 1) % 4)) % 10
    IN IF n = 0 THEN <<"0">>
       ELSE [i \in 1..total |-> DigitChars[decLE(total + 1 - i) + 1]]

\* bytesToNumber of a word, saturated at 65536 (larger than any payload here)
SmallValue(word) ==
    IF \A i \in 1..(2 * WordBytes - 4) : word[i] = 0
    THEN word[61] * 4096 + word[62] * 256 + word[63] * 16 + word[64]
    ELSE 65536

Ok(v) == [kind |-> "ok", value |-> v]

\* viem decodeAbiParameters([{type: "uint256"} x n], data)[0]: the first word
abiDecodeUint256(digits, n) ==
    IF ByteSize(digits) < n * WordBytes THEN Thrown ELSE Ok(WordAt(digits, 0))

\* viem decodeAbiParameters([{type: "address"}], data)[0]: the low 20 bytes of
\* the first word (the EIP-55 letter case of the text is not modelled)
abiDecodeAddress(digits) ==
    IF ByteSize(digits) < WordBytes THEN Thrown
    ELSE Ok(lowDigits(WordAt(digits, 0), AddressDigits))

\* bytesToString on printable ASCII bytes
bytesToString(digits) ==
    [i \in 1..(Len(digits) \div 2) |->
        LET b == digits[2 * i - 1] * 16 + digits[2 * i]
        IN IF b >= 32 /\ b <= 126 THEN AsciiTable[b - 31] ELSE "?"]

\* viem trim(bytes): leading zero bytes removed
RECURSIVE trimZeroBytes(_)
trimZeroBytes(digits) ==
    IF Len(digits) >= 2 /\ digits[1] = 0 /\ digits[2] = 0
    THEN trimZeroBytes(SubSeq(digits, 3, Len(digits))) ELSE digits

\* viem decodeAbiParameters([{type: "string"}], data)[0]: offset word, length
\* word at the offset, then `length` bytes; any read past the data throws
abiDecodeString(digits) ==
    LET size == ByteSize(digits)
    IN IF size < WordBytes THEN Thrown
       ELSE LET offset == SmallValue(WordAt(digits, 0))
            IN IF offset + WordBytes > size THEN Thrown
               ELSE LET length == SmallValue(WordAt(digits, offset))
                        start == offset + WordBytes
                    IN IF length = 0 THEN Ok(<<>>)
                       ELSE IF start + length > size THEN Thrown
                       ELSE Ok(bytesToString(trimZeroBytes(
                                SubSeq(digits, 2 * start + 1, 2 * (start + length)))))

\* the values decodeResp returns: a text or an address
Text(t) == [kind |-> "text", text |-> t]
AddressText(a) == [kind |-> "address", digits |-> a]

\* the outcome of a block of decodeResp: what it returned (or that it threw)
\* and the decodes it attempted
Ran(ret, tried) == [ret |-> ret, tried |-> tried]

TryCatchNone(body, handler) == body

\* try { body } catch { handler }
TryCatch(body, handler) ==
    IF body.ret = Thrown
    THEN Ran(handler.ret, body.tried \o handler.tried) ELSE body

Is57006(intToString) == intToString = <<"5","7","0","0","6">>

\* try-decode-resp.ts:42  bigIntValue === 57005n
Is57005(intToString) == intToString = Str_57005

AddressLikeLow(intToString) ==
    Len(intToString) > AddressLikeMin /\ Len(intToString) < AddressLikeMax - 1

\* try-decode-resp.ts:43  intToString.length > 35 && intToString.length < 51
AddressLike(intToString) ==
    Len(intToString) > AddressLikeMin /\ Len(intToString) < AddressLikeMax

\* try-decode-resp.ts:45-53, 60-67  try { address decode } catch { fallback }
tryAddress(digits, fallback) ==
    LET a == abiDecodeAddress(digits)
    IN TryCatch(Ran(IF a = Thrown THEN Thrown ELSE AddressText(a.value), <<"address">>),
                Ran(fallback, <<>>))

\* try-decode-resp.ts:27-69
decodeOneWord(digits) ==
    LET decoded == abiDecodeUint256(digits, 1)
    IN IF decoded = Thrown
       THEN LET r == tryAddress(digits, Text(Str_ER))
            IN Ran(r.ret, <<"uint256">> \o r.tried)
       ELSE LET intToString == bigIntToString(decoded.value)
            IN IF Is57005(intToString) \/ AddressLike(intToString)
               THEN LET r == tryAddress(digits, Text(intToString))
                    IN Ran(r.ret, <<"uint256">> \o r.tried)
               ELSE Ran(Text(intToString), <<"uint256">>)

\* try-decode-resp.ts:72-83
decodeTwoWords(digits) ==
    LET decoded == abiDecodeUint256(digits, 2)
    IN TryCatch(Ran(IF decoded = Thrown THEN Thrown
                    ELSE Text(bigIntToString(decoded.value)),
                    <<"uint256,uint256">>),
                Ran(Text(Str_ER), <<>>))

decodeThreeWordsAsUint(digits) ==
    Ran(Text(bigIntToString(WordAt(digits, 0))), <<"uint256">>)

\* try-decode-resp.ts:86-96
decodeThreeWords(digits) ==
    LET decoded == abiDecodeString(digits)
    IN TryCatch(Ran(IF decoded = Thrown THEN Thrown ELSE Text(decoded.value),
                    <<"string">>),
                Ran(Text(Str_ER), <<>>))

decodeErrorStringKeepSelector(data) ==
    IF HexLength(data) <= SelectorLength THEN Ran(Text(Str_ER), <<>>)
    ELSE LET decoded == abiDecodeString(data.digits)
         IN TryCatch(Ran(IF decoded = Thrown THEN Thrown ELSE Text(decoded.value),
                         <<"string">>),
                     Ran(Text(Str_ER), <<>>))

\* try-decode-resp.ts:105-119
decodeErrorString(data) ==
    IF HexLength(data) <= SelectorLength THEN Ran(Text(Str_ER), <<>>)
    ELSE LET dataWithoutSelector == sliceFrom(data.digits, SelectorLength - 2)
             decoded == abiDecodeString(dataWithoutSelector)
         IN TryCatch(Ran(IF decoded = Thrown THEN Thrown ELSE Text(decoded.value),
                         <<"string">>),
                     Ran(Text(Str_ER), <<>>))

decodeRespNoLimit(data) ==
    IF data = Undefined \/ data = EmptyString \/ HexLength(data) <= 2
    THEN Ran(Text(Str_ER), <<>>)
    ELSE LET dataLength == HexLength(data)
         IN IF dataLength = LengthOneWord THEN decodeOneWord(data.digits)
            ELSE IF dataLength = LengthTwoWords THEN decodeTwoWords(data.digits)
            ELSE IF dataLength = LengthThreeWords THEN decodeThreeWords(data.digits)
            ELSE decodeErrorString(data)

\* try-decode-resp.ts:17-120
decodeResp(data) ==
    IF data = Undefined \/ data = EmptyString \/ HexLength(data) <= 2
    THEN Ran(Text(Str_ER), <<>>)
    ELSE LET dataLength == HexLength(data)
         IN IF dataLength = LengthOneWord THEN decodeOneWord(data.digits)
            ELSE IF dataLength = LengthTwoWords THEN decodeTwoWords(data.digits)
            ELSE IF dataLength = LengthThreeWords THEN decodeThreeWords(data.digits)
            ELSE IF dataLength > LengthThreeWords
                 THEN Ran(Text(Str_couldNotDecode), <<>>)
            ELSE decodeErrorString(data)

(***************************************************************************)
(* decodeResp applied to return data of every length class                 *)
(***************************************************************************)
ZeroWord == [i \in 1..WordDigits |-> 0]

\* the word of value d * 16^m
WordOf(d, m) == [i \in 1..WordDigits |-> IF i = WordDigits - m THEN d ELSE 0]

\* the word of a value below 65536
WordSmall(n) ==
    [i \in 1..WordDigits |->
        IF i = WordDigits THEN n % 16
        ELSE IF i = WordDigits - 1 THEN (n \div 16) % 16
        ELSE IF i = WordDigits - 2 THEN (n \div 256) % 16
        ELSE IF i = WordDigits - 3 THEN (n \div 4096) % 16
        ELSE 0]

\* the bytes of the n-letter text "ABC...": letter i has code 65 + (i-1) mod 26
StrBytes(n) ==
    [j \in 1..(2 * n) |->
        LET b == 65 + ((((j + 1) \div 2) - 1) % 26)
        IN IF j % 2 = 1 THEN b \div 16 ELSE b % 16]

\* the same text as characters
StrChars(n) == [i \in 1..n |-> UpperChars[((i - 1) % 26) + 1]]

HelloBytes == <<4, 8, 6, 5, 6, 12, 6, 12, 6, 15>>
Str_Hello == <<"H","e","l","l","o">>

\* zero bytes appended up to a multiple of 32 bytes
PadRight(digits) ==
    digits \o [i \in 1..((2 * WordBytes - (Len(digits) % (2 * WordBytes)))
                          % (2 * WordBytes)) |-> 0]

\* the ABI encoding of one dynamic string: offset 0x20, length, padded bytes
EncodeString(bytes) ==
    WordSmall(WordBytes) \o WordSmall(Len(bytes) \div 2) \o PadRight(bytes)

\* the selector of Error(string), 0x08c379a0
ErrorSelector == <<0, 8, 12, 3, 7, 9, 10, 0>>

OneWordInputs ==
    {WordOf(d, m) : d \in {1, 2, 4, 5, 15}, m \in 0..(WordDigits - 1)}
    \cup {ZeroWord, WordSmall(57005), WordSmall(57006)}

TwoWordInputs ==
    {a \o b : a \in {ZeroWord, WordSmall(57005), WordOf(1, 41)},
              b \in {ZeroWord, WordSmall(1)}}

StringInputs ==
    {EncodeString(StrBytes(n)) : n \in 1..WordBytes} \cup {EncodeString(HelloBytes)}

ThreeWordOddInputs ==
    {ZeroWord \o ZeroWord \o ZeroWord,
     WordSmall(1) \o WordSmall(2) \o WordSmall(3),
     WordSmall(32) \o WordSmall(33) \o PadRight(StrBytes(32)),
     WordSmall(64) \o WordSmall(5) \o PadRight(HelloBytes),
     WordSmall(64) \o WordSmall(5) \o ZeroWord,
     WordSmall(96) \o WordSmall(5) \o PadRight(HelloBytes),
     WordOf(1, 40) \o WordSmall(5) \o PadRight(HelloBytes)}

LongInputs ==
    {ErrorSelector \o EncodeString(HelloBytes),
     EncodeString(HelloBytes) \o <<0, 0>>,
     EncodeString(HelloBytes) \o ZeroWord}

ShortInputs ==
    {<<0, 1>>,
     ErrorSelector,
     ErrorSelector \o <<0, 0>>,
     SubSeq(ZeroWord, 1, 62),
     ZeroWord \o <<0, 1>>,
     ErrorSelector \o ZeroWord,
     ErrorSelector \o WordSmall(32),
     ErrorSelector \o WordSmall(32) \o ZeroWord,
     ErrorSelector \o WordSmall(32) \o WordSmall(5),
     ErrorSelector \o WordSmall(32) \o WordSmall(5) \o HelloBytes,
     ErrorSelector \o WordSmall(32) \o WordSmall(1) \o StrBytes(1),
     ErrorSelector \o WordSmall(32) \o WordSmall(20) \o StrBytes(20),
     ErrorSelector \o WordSmall(32) \o WordSmall(21) \o StrBytes(20),
     ErrorSelector \o WordSmall(64) \o WordSmall(5) \o HelloBytes,
     ZeroWord \o ZeroWord \o <<0, 0>>,
     SubSeq(EncodeString(HelloBytes), 1, 190)}

DcInputs ==
    {Undefined, EmptyString, Hex(<<>>)}
    \cup {Hex(w) : w \in OneWordInputs \cup TwoWordInputs \cup StringInputs
                          \cup ThreeWordOddInputs \cup LongInputs \cup ShortInputs}

InitDecode ==
    /\ dcInput \in DcInputs
    /\ dcState = "idle"
    /\ dcOutput = <<>>
    /\ dcTried = <<>>
    /\ GcIdle
    /\ NrIdle
    /\ EvmIdle
    /\ PxIdle
    /\ RsIdle
    /\ CsIdle
    /\ CcIdle
    /\ McIdle
    /\ CtIdle
    /\ PuIdle

\* one call of decodeResp(dcInput)
DecodeCall ==
    /\ dcState = "idle"
    /\ LET r == decodeResp(dcInput)
       IN /\ dcOutput' = r.ret
          /\ dcTried' = r.tried
          /\ dcState' = IF r.ret = Thrown THEN "thrown" ELSE "returned"
    /\ UNCHANGED <<dcInput, gcVars, nrVars, evmVars, pxVars, rsVars, csVars, ccVars, mcVars, ctVars, puVars>>

NextDecode == DecodeCall

SpecDecode == InitDecode /\ [][NextDecode]_vars

(***************************************************************************)
(* Properties                                                              *)
(***************************************************************************)

\* what the chain answers to the call at input position i
AnswerTo(i) == chain[calldata[i].callData]

\* C1: groupcall resolves with exactly one outcome per input call, and outcome
\* i is the outcome of input call i, whatever the order of completion.
C1_OutcomesInInputOrder ==
    gcState = "resolved" =>
        /\ Len(gcResult) = Len(calldata)
        /\ \A i \in 1..Len(calldata) :
              /\ gcResult[i].success = ~Throws(AnswerTo(i))
              /\ AnswerTo(i).kind = "data" => gcResult[i].returnData = AnswerTo(i).data
              /\ AnswerTo(i).kind = "error" =>
                    gcResult[i].revertReason = normalizeRevertReason(AnswerTo(i).details)

\* C1 witness: three calls with different answers completed in reverse order
C1_Witness ==
    /\ gcState = "resolved"
    /\ arrival = <<3, 2, 1>>
    /\ AnswerTo(1).kind = "data" /\ AnswerTo(2).kind = "error"
    /\ AnswerTo(3).kind = "data" /\ AnswerTo(3) # AnswerTo(1)

\* C2: groupcall never rejects, and when exactly one call k fails, outcome k is
\* a failure and every other outcome is a success carrying its own bytes.
C2_FailureIsolated ==
    /\ gcState # "rejected"
    /\ gcState = "resolved" =>
          \A k \in 1..Len(calldata) :
              (/\ Throws(AnswerTo(k))
               /\ \A j \in 1..Len(calldata) : j # k => ~Throws(AnswerTo(j)))
              => /\ Len(gcResult) = Len(calldata)
                 /\ gcResult[k].success = FALSE
                 /\ \A j \in 1..Len(calldata) : j # k =>
                       /\ gcResult[j].success = TRUE
                       /\ gcResult[j].returnData =
                             (IF AnswerTo(j).kind = "data" THEN AnswerTo(j).data ELSE "0x")

\* C2 witness: the middle call of three fails after both siblings completed
C2_Witness ==
    /\ gcState = "resolved"
    /\ Len(calldata) = 3
    /\ arrival = <<1, 3, 2>>
    /\ AnswerTo(2).kind = "errorNoDetails"
    /\ AnswerTo(1).kind = "data" /\ AnswerTo(3).kind = "nodata"
    /\ gcResult[2].success = FALSE /\ gcResult[1].success /\ gcResult[3].success

\* instruction i of the list is a push whose operand lies within the bytecode
InBoundsPush(i) ==
    /\ IsPush(getOpcodeInfo(opcodes[i].opcode))
    /\ opcodes[i].pc + (opcodes[i].opcode - PUSH1 + 1) <= Len(code) - 1

\* instruction i of the list is a push whose operand extends past the end
TruncatedPush(i) ==
    /\ IsPush(getOpcodeInfo(opcodes[i].opcode))
    /\ opcodes[i].pc + (opcodes[i].opcode - PUSH1 + 1) > Len(code) - 1

\* the offset at which decoding continues after instruction i
NextOffset(i) == IF i < Len(opcodes) THEN opcodes[i + 1].pc ELSE pc

\* C3: an in-bounds PUSHN at offset p records exactly the bytes p+1..p+N as its
\* immediate and decoding continues at p+1+N, so no immediate byte is decoded
\* as an opcode; for PUSH4 the immediate is the 4 bytes and the next offset p+5.
C3_PushImmediateSkipped ==
    \A i \in 1..Len(opcodes) :
        InBoundsPush(i) =>
            LET p == opcodes[i].pc
                n == opcodes[i].opcode - PUSH1 + 1
            IN /\ "pushData" \in DOMAIN opcodes[i]
               /\ opcodes[i].pushData = [k \in 1..n |-> code[p + 1 + k]]
               /\ NextOffset(i) = p + 1 + n
               /\ \A j \in 1..Len(opcodes) : ~(opcodes[j].pc \in (p + 1)..(p + n))
               /\ opcodes[i].opcode = 99 =>
                     /\ Len(opcodes[i].pushData) = 4
                     /\ NextOffset(i) = p + 5

\* C3 witness: a PUSH4 at offset 1 whose operand ends at the last byte, decoded
\* and followed by the end of the scan
C3_Witness ==
    /\ evmState = "returned"
    /\ Len(code) = 6
    /\ \E i \in 1..Len(opcodes) :
          /\ opcodes[i].opcode = 99 /\ opcodes[i].pc = 1
          /\ InBoundsPush(i)
          /\ opcodes[i].pushData = <<96, 0, 255, 99>>
          /\ i = Len(opcodes)

\* C4: a push whose operand extends past the end of the bytecode is the last
\* instruction produced: the bytes after it are not decoded as instructions.
C4_TruncatedPushEndsScan ==
    \A i \in 1..Len(opcodes) : TruncatedPush(i) => i = Len(opcodes)

\* C5: the scan of a bytecode ending in a truncated push terminates, reads no
\* index at or beyond the buffer length, and gives the truncated push no
\* immediate.
C5_TruncatedPushSafe ==
    /\ reads \subseteq 0..(Len(code) - 1)
    /\ pc <= Len(code)
    /\ evmState = "scanning" => (ENABLED ScanStep \/ ENABLED ScanReturn)
    /\ Len(opcodes) <= pc
    /\ \A i \in 1..Len(opcodes) :
          TruncatedPush(i) => ~("pushData" \in DOMAIN opcodes[i])

\* C5 witness: a returned scan of a bytecode whose trailing PUSH4 has only two
\* of its four operand bytes
C5_Witness ==
    /\ evmState = "returned"
    /\ \E i \in 1..Len(opcodes) :
          /\ TruncatedPush(i)
          /\ opcodes[i].opcode = 99
          /\ opcodes[i].pc > 0
          /\ opcodes[i].pc = Len(code) - 3

\* the detection has ended, by returning or by rejecting
PxEnded == pxPc \in {"returned", "rejected"}

\* v is a 32-byte word whose low 20 bytes are not all zero
IsWord(v) == v # Undefined /\ Len(v.digits) = WordDigits

NonZeroLow20(v) ==
    IsWord(v) /\ \E i \in (WordDigits - AddressDigits + 1)..WordDigits : v.digits[i] # 0

\* the low 20 bytes of a 32-byte word
Low20(v) == [i \in 1..AddressDigits |-> v.digits[WordDigits - AddressDigits + i]]

\* the chain holds non-empty code at address a
NonEmptyCodeAt(a) == getCode(a) \notin {"undefined", "0x"}

\* the implementation slot designates an address with code
ImplPathValid ==
    NonZeroLow20(pxChain.implSlot) /\ NonEmptyCodeAt(Low20(pxChain.implSlot))

\* the beacon slot designates a beacon whose implementation() answers an
\* address with code
BeaconPathValid ==
    /\ NonZeroLow20(pxChain.beaconSlot)
    /\ pxChain.beaconCall.kind = "data"
    /\ NonZeroLow20(pxChain.beaconCall.data)
    /\ NonEmptyCodeAt(Low20(pxChain.beaconCall.data))

\* the log holds a read of the beacon slot / a call
BeaconSlotRead == \E i \in 1..Len(rpcLog) : rpcLog[i] = <<"getStorageAt", ProxyAddr, BEACON_SLOT>>
BeaconCalled == \E i \in 1..Len(rpcLog) : rpcLog[i][1] = "call"

\* C6: an implementation slot holding a non-zero address with empty code never
\* yields isProxy=true with that address; the beacon slot is read, and the
\* result is isProxy=true (beacon's implementation and its code) exactly when
\* the beacon path designates an address with non-empty code.
C6_CodelessSlotFallsToBeacon ==
    (/\ PxEnded
     /\ NonZeroLow20(pxChain.implSlot)
     /\ ~NonEmptyCodeAt(Low20(pxChain.implSlot)))
    => /\ BeaconSlotRead
       /\ (pxPc = "returned" /\ pxResult.isProxy) <=> BeaconPathValid
       /\ (pxPc = "returned" /\ pxResult.isProxy) =>
             /\ pxResult.implementation = Low20(pxChain.beaconCall.data)
             /\ pxResult.implementation # Low20(pxChain.implSlot)
             /\ pxResult.implementationBytecode = getCode(Low20(pxChain.beaconCall.data))

\* C6 witness: slot -> codeless A, beacon B answers with A's sibling that has code
C6_Witness ==
    /\ pxPc = "returned"
    /\ pxChain.implSlot = Hex(Word(0, AddrA)) /\ pxChain.codeA = "0x"
    /\ pxChain.beaconSlot = Hex(Word(1, AddrA))
    /\ pxChain.beaconCall = [kind |-> "data", data |-> Hex(Word(0, AddrB))]
    /\ pxResult = proxyResult(ProxyAddr, AddrB, CodeOf(AddrB))

\* C7: an implementation slot whose low 20 bytes are non-zero and designate an
\* address with code yields isProxy=true with exactly that address and code,
\* and the beacon slot is never read nor the beacon called.
C7_ImplSlotWins ==
    ImplPathValid =>
        /\ ~BeaconSlotRead
        /\ ~BeaconCalled
        /\ pxPc # "rejected"
        /\ pxPc = "returned" =>
              pxResult = [isProxy |-> TRUE, proxy |-> ProxyAddr,
                          implementation |-> Low20(pxChain.implSlot),
                          implementationBytecode |-> getCode(Low20(pxChain.implSlot))]

\* C7 witness: a slot word with dirty upper bytes resolved to its low 20 bytes
C7_Witness ==
    /\ pxPc = "returned"
    /\ pxChain.implSlot = Hex(Word(1, AddrA))
    /\ pxChain.beaconSlot = Hex(Word(0, AddrB))
    /\ pxResult.isProxy /\ pxResult.implementation = AddrA
    /\ Len(rpcLog) = 2

\* C8: whenever no step produces an address with non-empty code, the detection
\* returns isProxy=false with the zero address and empty bytecode and does not
\* error out.
C8_FallsThroughToEmptyResult ==
    (PxEnded /\ ~ImplPathValid /\ ~BeaconPathValid)
    => /\ pxPc = "returned"
       /\ pxResult = [isProxy |-> FALSE, proxy |-> ProxyAddr,
                      implementation |-> zeroAddress,
                      implementationBytecode |-> "0x"]

\* C9: normalizeRevertReason("execution reverted: 0xdeadbeef Some reason")
\* is "Some reason".
C9_TextAfterPayloadKept ==
    (/\ nrState = "returned"
     /\ nrInput = Str_ER \o Str_colonSpace \o Str_hex \o Str_space \o Str_SomeReason)
    => nrOutput = Str_SomeReason

\* the text normalizeRevertReason is left with for an assembled input: nothing
\* when a hex payload precedes the body, the body otherwise
Remaining(p) == IF p.payload # <<>> THEN <<>> ELSE p.body

\* C10: the result is "execution reverted" when nothing remains, "execution
\* reverted: <text>" when the remaining text has at most 10 characters, and the
\* remaining text itself when it has more than 10.
C10_DefaultWrapOrKeep ==
    nrState = "returned" =>
        LET text == Remaining(nrParts)
        IN /\ nrInput = <<>> => nrOutput = Str_ER
           /\ nrInput = Str_ab => nrOutput = Str_ER \o Str_colonSpace \o Str_ab
           /\ nrOutput = IF text = <<>> THEN Str_ER
                         ELSE IF Len(text) <= 10 THEN Str_ER \o Str_colonSpace \o text
                         ELSE text

\* C10 witness: a ten-character text behind a redundant prefix is wrapped
C10_Witness ==
    /\ nrState = "returned"
    /\ nrParts.prefix = Str_ERCaps /\ nrParts.body = Str_ten /\ nrParts.payload = <<>>
    /\ nrOutput = Str_ER \o Str_colonSpace \o Str_ten

(***************************************************************************)
(* Properties of decodeResp                                                *)
(***************************************************************************)
DcReturned == dcState = "returned"
DcIsHex == dcInput.kind = "hex"
DcLength == HexLength(dcInput)
DcOneWord == DcReturned /\ DcIsHex /\ DcLength = 66
DcDecimal == bigIntToString(dcInput.digits)
DcReattempts == \E i \in DOMAIN dcTried : dcTried[i] = "address"
DeadAddress ==
    [i \in 1..40 |-> IF i = 37 THEN 13 ELSE IF i = 38 THEN 14
                     ELSE IF i = 39 THEN 10 ELSE IF i = 40 THEN 13 ELSE 0]
InvalidStringPayloads ==
    {WordSmall(1) \o WordSmall(2) \o WordSmall(3),
     WordSmall(32) \o WordSmall(33) \o PadRight(StrBytes(32)),
     WordSmall(64) \o WordSmall(5) \o PadRight(HelloBytes),
     WordSmall(96) \o WordSmall(5) \o PadRight(HelloBytes),
     WordOf(1, 40) \o WordSmall(5) \o PadRight(HelloBytes)}

\* C11 (as amended): for a 66-character payload decoding to v, the address
\* decode is attempted again exactly when v = 57005 or the decimal text of v
\* has more than 35 and fewer than 51 digits (36 to 50); every other v comes
\* back as its decimal text.
C11_AddressRetryBand ==
    DcOneWord =>
        LET n == Len(DcDecimal)
        IN /\ DcReattempts <=> (DcDecimal = Str_57005 \/ (n > 35 /\ n < 51))
           /\ ~DcReattempts => dcOutput = Text(DcDecimal)

\* C11 as stated: the band is more than 35 and fewer than 50 digits, and a
\* value of 50 or more digits comes back as its decimal text.
C11_AddressRetryBelow50 ==
    DcOneWord =>
        LET n == Len(DcDecimal)
        IN /\ DcReattempts <=> (DcDecimal = Str_57005 \/ (n > 35 /\ n < 50))
           /\ (DcDecimal # Str_57005 /\ (n <= 35 \/ n >= 50))
                => dcOutput = Text(DcDecimal)

C11_Witness ==
    /\ DcOneWord
    /\ Len(DcDecimal) = 50
    /\ dcOutput.kind = "address"

\* C12: the 66-character payload that encodes 57005 comes back as the address
\* made of its low 20 bytes, never as the text "57005".
C12_DeadValueIsAddress ==
    (DcReturned /\ dcInput = Hex(WordSmall(57005))) =>
        /\ dcOutput = AddressText(DeadAddress)
        /\ dcOutput # Text(Str_57005)

C12_Witness ==
    /\ DcReturned
    /\ dcInput = Hex(WordSmall(57005))
    /\ dcOutput.kind = "address"

C14_ErrorStringBranch ==
    (DcReturned /\ DcIsHex /\ DcLength > 2 /\ DcLength < 194
         /\ DcLength \notin {66, 130}) =>
        LET rest == SubSeq(dcInput.digits, 9, Len(dcInput.digits))
            d == abiDecodeString(rest)
        IN /\ dcOutput = IF DcLength <= 10 \/ d = Thrown
                         THEN Text(Str_ER) ELSE Text(d.value)
           /\ dcInput.digits = ErrorSelector \o WordSmall(32) \o WordSmall(5) \o HelloBytes
                 => dcOutput = Text(Str_Hello)
           /\ dcInput.digits = ErrorSelector => dcOutput = Text(Str_ER)

C14_Witness ==
    /\ DcReturned
    /\ dcInput = Hex(ErrorSelector \o WordSmall(32) \o WordSmall(5) \o HelloBytes)
    /\ dcOutput = Text(Str_Hello)

C16_NeverThrows == dcState # "thrown"

C16_Witness ==
    /\ DcReturned
    /\ DcIsHex
    /\ abiDecodeString(dcInput.digits) = Thrown
    /\ dcTried = <<"string">>
    /\ dcOutput = Text(Str_ER)

(***************************************************************************)
(* isCallableSignature (src/helpers/contract-utils.ts)                     *)
(***************************************************************************)
MaxParams == 2

\* String.prototype.endsWith
endsWith(text, suffix) ==
    /\ Len(text) >= Len(suffix)
    /\ SubSeq(text, Len(text) - Len(suffix) + 1, Len(text)) = suffix

Str_emptyParams == <<"(",")">>

isCallableSignatureParen(signature) ==
    IF signature = Undefined \/ signature = Text(<<>>) THEN TRUE
    ELSE endsWith(signature.text, <<")">>)

\* contract-utils.ts:6-9
isCallableSignature(signature) ==
    IF signature = Undefined \/ signature = Text(<<>>) THEN TRUE
    ELSE endsWith(signature.text, Str_emptyParams)

\* function names and parameter types the signatures are built from
SigNames == {<<"n","a","m","e">>, <<"t","r","a","n","s","f","e","r">>, <<"f">>}
SigTypes == {<<"a","d","d","r","e","s","s">>, <<"u","i","n","t","2","5","6">>, <<"b","y","t","e","s","3","2","[","]">>, <<"(","u","i","n","t","2","5","6",",","a","d","d","r","e","s","s",")">>}

ParamLists ==
    UNION {[1..n -> SigTypes] : n \in 0..MaxParams}

\* the parameter types joined with commas
RECURSIVE JoinTypes(_)
JoinTypes(params) ==
    IF params = <<>> THEN <<>>
    ELSE IF Len(params) = 1 THEN params[1]
    ELSE params[1] \o <<",">> \o JoinTypes(Tail(params))

\* the canonical signature text: name(type1,type2,...)
SigText(name, params) == name \o <<"(">> \o JoinTypes(params) \o <<")">>

SigParts(name, params) == [name |-> name, params |-> params]

InitCallable ==
    /\ \/ csParts = Undefined /\ csSignature = Undefined
       \/ \E name \in SigNames, params \in ParamLists :
             /\ csParts = SigParts(name, params)
             /\ csSignature = Text(SigText(name, params))
    /\ csState = "idle"
    /\ csResult = FALSE
    /\ GcIdle
    /\ NrIdle
    /\ EvmIdle
    /\ PxIdle
    /\ DcIdle
    /\ RsIdle
    /\ CcIdle
    /\ McIdle
    /\ CtIdle
    /\ PuIdle

\* one call of isCallableSignature(csSignature)
CallableCall ==
    /\ csState = "idle"
    /\ csResult' = isCallableSignature(csSignature)
    /\ csState' = "returned"
    /\ UNCHANGED <<csParts, csSignature, gcVars, nrVars, evmVars, pxVars, dcVars, rsVars, ccVars, mcVars, ctVars, puVars>>

NextCallable == CallableCall

SpecCallable == InitCallable /\ [][NextCallable]_vars

(***************************************************************************)
(* Signature resolution: openchain, fourByte (src/helpers/                 *)
(* signature-resolver.ts) and the loop of processUserContract              *)
(***************************************************************************)
MaxSelectors == 2

SelA == Text(<<"0","x","0","6","f","d","d","e","0","3">>)
SelB == Text(<<"0","x","a","9","0","5","9","c","b","b">>)
ResolveSelectors == {SelA, SelB}

Sig_name == Text(SigText(<<"n","a","m","e">>, <<>>))
Sig_transfer == Text(SigText(<<"t","r","a","n","s","f","e","r">>, <<<<"a","d","d","r","e","s","s">>, <<"u","i","n","t","2","5","6">>>>))

\* JSON values of a response body
JsObject(fields) == [kind |-> "object", fields |-> fields]
JsArray(items) == [kind |-> "array", items |-> items]

\* what fetch and response.json() give: a rejected fetch, a body that is
\* not JSON, or the parsed body
NetworkError == [kind |-> "networkError"]
NotJson == [kind |-> "notJson"]
Json(data) == [kind |-> "json", data |-> data]

\* bodies of the first service: {"result": {"function": {<selector>: entry}}}
OpenchainBody(entry) ==
    JsObject([result |-> JsObject([function |-> JsObject([entry |-> entry])])])

OpenchainFound(sig) == Json(OpenchainBody(JsArray(<<JsObject([name |-> sig])>>)))
OpenchainNoEntry == Json(OpenchainBody(Null))

OpenchainFaults ==
    {NetworkError, NotJson, Json(Null),
     Json(JsObject([result |-> Undefined])),
     Json(JsObject([result |-> JsObject([function |-> Undefined])])),
     Json(OpenchainBody(JsArray(<<>>))),
     Json(OpenchainBody(JsArray(<<JsObject([name |-> Undefined])>>)))}

OpenchainResponses ==
    {OpenchainFound(Sig_name), OpenchainFound(Sig_transfer), OpenchainNoEntry}
    \cup OpenchainFaults

\* bodies of the second service: {"results": [{"text_signature": ...}, ...]}
FourByteBody(results) == JsObject([results |-> results])

FourByteFound(sig) ==
    Json(FourByteBody(JsArray(<<JsObject([text_signature |-> sig])>>)))
FourByteNoEntry == Json(FourByteBody(JsArray(<<>>)))

FourByteFaults ==
    {NetworkError, NotJson, Json(Null),
     Json(FourByteBody(Undefined)),
     Json(FourByteBody(JsArray(<<Null>>))),
     Json(FourByteBody(JsArray(<<JsObject([text_signature |-> Undefined])>>)))}

FourByteResponses ==
    {FourByteFound(Sig_name), FourByteFound(Sig_transfer), FourByteNoEntry}
    \cup FourByteFaults

\* signature-resolver.ts:6-19; a TypeError or rejection inside the try is
\* caught and the function falls to `return selector`
openchain(selector, response) ==
    IF response.kind # "json" THEN selector
    ELSE LET data == response.data
         IN IF data = Null THEN selector
            ELSE LET result == data.fields.result
                 IN IF result = Undefined THEN selector
                    ELSE LET function == result.fields.function
                         IN IF function = Undefined THEN selector
                            ELSE LET entry == function.fields.entry
                                 IN IF entry = Null \/ entry = Undefined THEN selector
                                    ELSE IF entry.items = <<>> THEN selector
                                    ELSE entry.items[1].fields.name

\* signature-resolver.ts:26-39
fourByte(selector, response) ==
    IF response.kind # "json" THEN selector
    ELSE LET data == response.data
         IN IF data = Null THEN selector
            ELSE LET results == data.fields.results
                 IN IF results = Undefined THEN selector
                    ELSE IF ~(Len(results.items) > 0) THEN selector
                    ELSE IF results.items[1] = Null THEN selector
                    ELSE results.items[1].fields.text_signature

EchoedNever(result, selector) == FALSE

\* groupcall-viem.ts:215, 220  !(result !== selector)
Echoed(result, selector) == result = selector

\* groupcall-viem.ts:226  resolvedSelectors[selector] = ...
StoreResolved(resolved, selector, resolvedName) ==
    LET value == IF resolvedName # selector THEN resolvedName ELSE Undefined
    IN [k \in (DOMAIN resolved) \cup {selector} |->
           IF k = selector THEN value ELSE resolved[k]]

\* one entry of the lookup history
Lookup(service, selector, response, returned) ==
    [service |-> service, selector |-> selector,
     fault |-> response \in OpenchainFaults \cup FourByteFaults,
     returned |-> returned]

SelectorLists ==
    UNION {[1..n -> ResolveSelectors] : n \in 0..MaxSelectors}

InitResolve ==
    /\ rsSelectors \in SelectorLists
    /\ rsPos = 1
    /\ rsPc = "openchain"
    /\ rsResolved = <<>>
    /\ rsLookups = <<>>
    /\ rsCallable = {}
    /\ rsNonCallable = {}
    /\ GcIdle
    /\ NrIdle
    /\ EvmIdle
    /\ PxIdle
    /\ DcIdle
    /\ CsIdle
    /\ CcIdle
    /\ McIdle
    /\ CtIdle
    /\ PuIdle

RsOther == <<gcVars, nrVars, evmVars, pxVars, dcVars, csVars, ccVars, mcVars, ctVars, puVars>>

\* groupcall-viem.ts:210-218, 226: the loop takes the next selector and
\* awaits openchain(selector)
RsOpenchain ==
    /\ rsPc = "openchain"
    /\ rsPos <= Len(rsSelectors)
    /\ \E response \in OpenchainResponses :
          LET selector == rsSelectors[rsPos]
              openchainResult == openchain(selector, response)
          IN /\ rsLookups' = Append(rsLookups,
                   Lookup("openchain", selector, response, openchainResult))
             /\ IF ~Echoed(openchainResult, selector)
                THEN /\ rsResolved' = StoreResolved(rsResolved, selector, openchainResult)
                     /\ rsPos' = rsPos + 1
                     /\ rsPc' = "openchain"
                ELSE /\ rsPc' = "fourByte"
                     /\ UNCHANGED <<rsResolved, rsPos>>
    /\ UNCHANGED <<rsSelectors, rsCallable, rsNonCallable, RsOther>>

\* groupcall-viem.ts:219-226: await fourByte(selector), then store
RsFourByte ==
    /\ rsPc = "fourByte"
    /\ \E response \in FourByteResponses :
          LET selector == rsSelectors[rsPos]
              fourByteResult == fourByte(selector, response)
              resolvedName == IF ~Echoed(fourByteResult, selector)
                              THEN fourByteResult ELSE Undefined
          IN /\ rsLookups' = Append(rsLookups,
                   Lookup("fourByte", selector, response, fourByteResult))
             /\ rsResolved' = StoreResolved(rsResolved, selector, resolvedName)
    /\ rsPos' = rsPos + 1
    /\ rsPc' = "openchain"
    /\ UNCHANGED <<rsSelectors, rsCallable, rsNonCallable, RsOther>>

\* groupcall-viem.ts:248-260: Object.entries(resolvedSelectors).forEach
RsClassify ==
    /\ rsPc = "openchain"
    /\ rsPos > Len(rsSelectors)
    /\ rsCallable' = {k \in DOMAIN rsResolved : isCallableSignature(rsResolved[k])}
    /\ rsNonCallable' = {k \in DOMAIN rsResolved : ~isCallableSignature(rsResolved[k])}
    /\ rsPc' = "classified"
    /\ UNCHANGED <<rsSelectors, rsPos, rsResolved, rsLookups, RsOther>>

NextResolve == RsOpenchain \/ RsFourByte \/ RsClassify

SpecResolve == InitResolve /\ [][NextResolve]_vars

(***************************************************************************)
(* Properties of the signature resolution and of isCallableSignature       *)
(***************************************************************************)
RsEchoAt(j) == rsLookups[j].returned = rsLookups[j].selector
RsFollowedByFourByte(j) ==
    IF j = Len(rsLookups) THEN rsPc = "fourByte"
    ELSE /\ rsLookups[j + 1].service = "fourByte"
         /\ rsLookups[j + 1].selector = rsLookups[j].selector

\* C17: for each selector the first service is asked first and the second
\* only after the first gave the selector back; the stored signature is the
\* first answer that differs from the selector, it is absent when both gave
\* the selector back, and such a selector is classified callable.
C17_PrimaryThenSecondary ==
    /\ \A j \in DOMAIN rsLookups :
          LET e == rsLookups[j]
          IN /\ e.service = "fourByte" =>
                   /\ j > 1
                   /\ rsLookups[j - 1].service = "openchain"
                   /\ rsLookups[j - 1].selector = e.selector
                   /\ RsEchoAt(j - 1)
             /\ (e.service = "openchain" /\ RsEchoAt(j)) => RsFollowedByFourByte(j)
             /\ (e.service = "openchain" /\ ~RsEchoAt(j) /\ j < Len(rsLookups))
                   => rsLookups[j + 1].service = "openchain"
    /\ (Len(rsLookups) > 0 /\ rsPc # "fourByte") =>
          LET e == rsLookups[Len(rsLookups)]
          IN /\ rsResolved[e.selector] =
                   IF e.returned # e.selector THEN e.returned ELSE Undefined
             /\ (rsPc = "classified" /\ e.service = "fourByte" /\ e.returned = e.selector)
                   => (e.selector \in rsCallable /\ e.selector \notin rsNonCallable)

C17_Witness ==
    /\ rsPc = "classified"
    /\ Len(rsLookups) >= 2
    /\ rsLookups[Len(rsLookups) - 1].service = "openchain"
    /\ rsLookups[Len(rsLookups)].service = "fourByte"
    /\ RsEchoAt(Len(rsLookups))
    /\ rsResolved[rsLookups[Len(rsLookups)].selector] = Undefined
    /\ rsLookups[Len(rsLookups)].selector \in rsCallable

\* C18: a lookup whose response is a network error or a malformed or
\* unparseable body gives the selector back, and after such a response of the
\* first service the second service is asked.
C18_FaultIsNotFound ==
    \A j \in DOMAIN rsLookups :
        rsLookups[j].fault =>
            /\ RsEchoAt(j)
            /\ rsLookups[j].service = "openchain" => RsFollowedByFourByte(j)

\* C19: within one run no selector is looked up twice in the same service,
\* however often it is presented.
C19_LookupsAtMostOnce ==
    \A j, k \in DOMAIN rsLookups :
        (j < k /\ rsLookups[j].service = rsLookups[k].service)
            => rsLookups[j].selector # rsLookups[k].selector

\* C20: isCallableSignature gives true for an absent signature, and for a
\* signature it gives true exactly when the parameter list is empty; a
\* signature with one or more parameters gives false.
C20_CallableIffNoParams ==
    csState = "returned" =>
        IF csParts = Undefined THEN csResult = TRUE
        ELSE csResult <=> (Len(csParts.params) = 0)

C20_Witness ==
    /\ csState = "returned"
    /\ csParts # Undefined
    /\ Len(csParts.params) = 2
    /\ csResult = FALSE

(***************************************************************************)
(* Properties of the instruction list as a whole                           *)
(***************************************************************************)
ImmediateLen(op) == IF "pushData" \in DOMAIN op THEN Len(op.pushData) ELSE 0

\* the instructions decoded so far tile the bytes from 0 up to `upTo`
TilesUpTo(upTo) ==
    /\ Len(opcodes) > 0 => opcodes[1].pc = 0
    /\ \A i \in 1..Len(opcodes) :
          opcodes[i].pc + 1 + ImmediateLen(opcodes[i]) =
              IF i < Len(opcodes) THEN opcodes[i + 1].pc ELSE upTo
    /\ Len(opcodes) = 0 => upTo = 0

\* C27: in every instruction list offsets start at 0 and each offset plus 1
\* plus the length of the immediate is the next offset (the bytecode length
\* after the last instruction), so every byte is one opcode or part of one
\* immediate; every loop iteration moves pc forward and never past the end,
\* so the scan terminates.
C27_InstructionsTileBytecode ==
    /\ [](evmState = "scanning" => (TilesUpTo(pc) /\ pc <= Len(code)))
    /\ []((evmState = "returned" /\ evmCalls > 0) => TilesUpTo(Len(code)))
    /\ [][(evmState = "scanning" /\ evmState' = "scanning")
            => (pc' > pc /\ pc' <= Len(code))]_vars

C27_Witness ==
    /\ evmState = "returned"
    /\ Len(opcodes) >= 3
    /\ \E i \in 1..Len(opcodes) : ImmediateLen(opcodes[i]) = 2
    /\ \E i \in 1..Len(opcodes) :
          IsPush(opcodes[i].name) /\ "pushData" \notin DOMAIN opcodes[i]

\* C30: once the first getOpcodes call has returned, later calls leave the
\* cached list as it is (nothing is appended again) and so return the same
\* sequence; for empty bytecode the list stays empty.
C30_GetOpcodesIdempotent ==
    [][((evmCalls > 0 /\ evmState = "returned") \/ evmCalls > 1)
          => (opcodes' = opcodes /\ (Len(code) = 0 => opcodes' = <<>>))]_vars

C30_Witness ==
    /\ evmCalls = 2
    /\ evmState = "returned"
    /\ Len(opcodes) > 0

(***************************************************************************)
(* Properties of every groupcall outcome                                   *)
(***************************************************************************)
OutcomeWellFormed(o, resp) ==
    /\ o.success =>
          /\ resp.kind \in {"data", "nodata"}
          /\ o.revertReason = <<>>
          /\ o.returnData = IF resp.kind = "data" THEN resp.data ELSE "0x"
    /\ ~o.success =>
          /\ resp.kind \in {"error", "errorNoDetails"}
          /\ o.returnData = "0x"
          /\ o.revertReason # <<>>
          /\ resp.kind = "errorNoDetails" => o.revertReason = Str_ER

\* C29: an outcome with success=true has an empty revertReason and the bytes
\* the call returned ("0x" when it returned none); an outcome with
\* success=false has returnData "0x" and a non-empty revertReason, which is
\* "execution reverted" when the error has no string details.
C29_OutcomeShape ==
    /\ \A i \in DOMAIN settled :
          settled[i].state = "fulfilled"
              => OutcomeWellFormed(settled[i].value, chain[calldata[i].callData])
    /\ gcState = "resolved" =>
          \A i \in DOMAIN gcResult :
              OutcomeWellFormed(gcResult[i], chain[calldata[i].callData])

C29_Witness ==
    /\ gcState = "resolved"
    /\ \E i \in DOMAIN gcResult :
          /\ ~gcResult[i].success
          /\ chain[calldata[i].callData].kind = "errorNoDetails"
          /\ gcResult[i].revertReason = Str_ER
    /\ \E i \in DOMAIN gcResult :
          /\ ~gcResult[i].success
          /\ chain[calldata[i].callData].kind = "error"
    /\ \E i \in DOMAIN gcResult :
          /\ gcResult[i].success
          /\ chain[calldata[i].callData].kind = "nodata"
          /\ gcResult[i].returnData = "0x"

(***************************************************************************)
(* C28: the shape of a proxy result.                                       *)
(***************************************************************************)
\* the three cases of a result r about implementation and its code
ImplementationShape(r) ==
    IF r.isProxy
    THEN /\ r.implementation # zeroAddress
         /\ HasCode(r.implementationBytecode)
         /\ r.implementationBytecode = getCode(r.implementation)
    ELSE /\ r.implementation = zeroAddress
         /\ r.implementationBytecode = "0x"

\* C28: every result detectProxyImplementation returns names the input address
\* as proxy; with isProxy it carries a non-zero implementation and the
\* non-empty code fetched for that very address, without isProxy the zero
\* address and "0x".  checkContractInNetwork hands the same three fields on,
\* and an address without code is reported with isProxy false (and is never
\* examined for a proxy).
C28_ProxyResultShape ==
    /\ pxPc = "returned" =>
          /\ pxResult.proxy = ProxyAddr
          /\ ImplementationShape(pxResult)
    /\ ccPc = "returned" =>
          /\ ImplementationShape(ccResult)
          /\ ccResult.isContract = HasCode(ccCode)
          /\ ~ccResult.isContract => (~ccResult.isProxy /\ pxPc = "idle" /\ rpcLog = <<>>)
          /\ ccResult.isContract =>
                /\ pxPc = "returned"
                /\ ccResult.isProxy = pxResult.isProxy
                /\ ccResult.implementation = pxResult.implementation
                /\ ccResult.implementationBytecode = pxResult.implementationBytecode

\* a contract found to be a beacon proxy by checkContractInNetwork
C28_Witness ==
    /\ ccPc = "returned"
    /\ ccResult.isContract
    /\ ccResult.isProxy
    /\ BeaconCalled

\* an address without code, reported as no contract and no proxy
C28_WitnessNoContract ==
    /\ ccPc = "returned"
    /\ ~ccResult.isContract

(***************************************************************************)
(* new EVM(bytecode) (src/modules/evm-opcodes.ts:27-33).  The argument is  *)
(* a text, the sequence of its characters.  Buffer.from(text, 'hex') is    *)
(* Node's hex decoding: it reads the text two characters at a time and     *)
(* stops, without an error, at the first pair that is not two hex digits;  *)
(* a last single character is dropped.                                     *)
(***************************************************************************)
MaxTextLen == 4

CtAlphabet == {"0", "x", "6", "a", "F", "g"}

CtInputs == UNION {[1..n -> CtAlphabet] : n \in 0..MaxTextLen}

\* the value of a hex digit, -1 for any other character
unhex(c) ==
    CASE c = "0" -> 0 [] c = "1" -> 1 [] c = "2" -> 2 [] c = "3" -> 3
      [] c = "4" -> 4 [] c = "5" -> 5 [] c = "6" -> 6 [] c = "7" -> 7
      [] c = "8" -> 8 [] c = "9" -> 9
      [] c \in {"a", "A"} -> 10 [] c \in {"b", "B"} -> 11
      [] c \in {"c", "C"} -> 12 [] c \in {"d", "D"} -> 13
      [] c \in {"e", "E"} -> 14 [] c \in {"f", "F"} -> 15
      [] OTHER -> -1

\* Buffer.from(chars, 'hex')
RECURSIVE BufferFromHex(_)
BufferFromHex(chars) ==
    IF Len(chars) < 2 THEN <<>>
    ELSE LET a == unhex(chars[1])
             b == unhex(chars[2])
         IN IF a < 0 \/ b < 0 THEN <<>>
            ELSE <<16 * a + b>> \o BufferFromHex(SubSeq(chars, 3, Len(chars)))

\* evm-opcodes.ts:29-31  bytecode.startsWith('0x') ? bytecode.slice(2) : bytecode
hexCode(bytecode) ==
    IF Len(bytecode) >= 2 /\ bytecode[1] = "0" /\ bytecode[2] = "x"
    THEN SubSeq(bytecode, 3, Len(bytecode))
    ELSE bytecode

\* a valid hex string: whole bytes, hex digits only
IsValidHex(chars) ==
    /\ Len(chars) % 2 = 0
    /\ \A i \in 1..Len(chars) : unhex(chars[i]) >= 0

InitConstruct ==
    /\ ctInput \in CtInputs
    /\ ctState = "idle"
    /\ GcIdle
    /\ NrIdle
    /\ EvmIdle
    /\ PxIdle
    /\ DcIdle
    /\ RsIdle
    /\ CsIdle
    /\ CcIdle
    /\ McIdle
    /\ PuIdle

\* evm-opcodes.ts:27-33  new EVM(ctInput): no statement of the constructor throws
Construct ==
    /\ ctState = "idle"
    /\ code' = BufferFromHex(hexCode(ctInput))
    /\ ctState' = "constructed"
    /\ UNCHANGED <<ctInput, opcodes, pc, reads, evmCalls, evmState,
                   gcVars, nrVars, pxVars, dcVars, rsVars, csVars,
                   ccVars, mcVars, puVars>>

SpecConstruct == InitConstruct /\ [][Construct]_vars

\* C25: constructing the scanner from a text that is not valid hex throws, so
\* a scanner is only ever constructed from valid hex (and then holds exactly
\* the bytes the text spells).
C25_MalformedHexThrows ==
    ctState = "constructed" =>
        /\ IsValidHex(hexCode(ctInput))
        /\ 2 * Len(code) = Len(hexCode(ctInput))

(***************************************************************************)
(* multicall (src/groupcall/multicall-viem.ts).  A call is a target (an    *)
(* address, here a small number) and its callData (bytes).  The request    *)
(* and the response travel encoded as sequences of numbers, a              *)
(* length-prefixed layout standing for the ABI encoding of                 *)
(* tryAggregate(bool, (address, bytes)[]) and of (bool, bytes)[].  The     *)
(* aggregator is the Multicall3 contract: it runs the calls in order and   *)
(* answers one (success, returnData) per call; with requireSuccess it      *)
(* reverts as soon as one call fails.                                      *)
(***************************************************************************)
MulticallAddress == "multicall3"

McCallSet == [target : {1, 2}, callData : {<<6, 253>>, <<149>>}] \ {[target |-> 2, callData |-> <<149>>]}

McCallLists == UNION {[1..n -> McCallSet] : n \in 0..MaxCalls}

\* what a target does with a callData: it returns bytes or reverts with bytes
McOutcomes == {[ok |-> TRUE, bytes |-> <<170>>], [ok |-> TRUE, bytes |-> <<>>],
               [ok |-> FALSE, bytes |-> <<8, 195>>]}

McChains == [aggregator : {"deployed", "absent", "unreachable"},
             outcome : [McCallSet -> McOutcomes]]

RECURSIVE Flatten(_)
Flatten(parts) ==
    IF parts = <<>> THEN <<>> ELSE Head(parts) \o Flatten(Tail(parts))

\* encodeFunctionData(tryAggregate, [requireSuccess, calls])
EncodeCalls(requireSuccess, calls) ==
    <<IF requireSuccess THEN 1 ELSE 0, Len(calls)>>
    \o Flatten([i \in 1..Len(calls) |->
                  <<calls[i].target, Len(calls[i].callData)>> \o calls[i].callData])

RECURSIVE ParseCalls(_, _)
ParseCalls(words, n) ==
    IF n = 0 THEN <<>>
    ELSE <<[target |-> words[1], callData |-> SubSeq(words, 3, 2 + words[2])]>>
         \o ParseCalls(SubSeq(words, 3 + words[2], Len(words)), n - 1)

\* the aggregator's reading of its arguments
DecodeCalls(words) ==
    [requireSuccess |-> words[1] = 1,
     calls |-> ParseCalls(SubSeq(words, 3, Len(words)), words[2])]

\* the aggregator's answer, encoded
EncodeResults(results) ==
    <<Len(results)>>
    \o Flatten([i \in 1..Len(results) |->
                  <<IF results[i].success THEN 1 ELSE 0, Len(results[i].returnData)>>
                  \o results[i].returnData])

RECURSIVE ParseResults(_, _)
ParseResults(words, n) ==
    IF n = 0 THEN <<>>
    ELSE <<[success |-> words[1] = 1, returnData |-> SubSeq(words, 3, 2 + words[2])]>>
         \o ParseResults(SubSeq(words, 3 + words[2], Len(words)), n - 1)

\* multicall-viem.ts:80-84  decodeFunctionResult(tryAggregate, data)
DecodeResults(words) == ParseResults(Tail(words), words[1])

\* Multicall3.tryAggregate on the chain: the answer to a request, or Thrown
\* when the aggregator reverts
tryAggregate(world, words) ==
    LET args == DecodeCalls(words)
        results == [i \in 1..Len(args.calls) |->
                      [success |-> world.outcome[args.calls[i]].ok,
                       returnData |-> world.outcome[args.calls[i]].bytes]]
    IN IF args.requireSuccess /\ \E i \in 1..Len(results) : ~results[i].success
       THEN Thrown
       ELSE [kind |-> "data", data |-> EncodeResults(results)]

\* client.call({to, data}) as the chain answers it
McClientCall(world, request) ==
    CASE world.aggregator = "unreachable" -> Thrown
      [] world.aggregator = "absent" -> [kind |-> "nodata"]
      [] OTHER -> tryAggregate(world, request.data)

requireSuccessTrue == TRUE

\* multicall-viem.ts:63  the first argument of tryAggregate
requireSuccess == FALSE

InitMulticall ==
    /\ mcCalls \in McCallLists
    /\ mcChain \in McChains
    /\ mcPc = "idle"
    /\ mcRequests = <<>>
    /\ mcResult = <<>>
    /\ GcIdle
    /\ NrIdle
    /\ EvmIdle
    /\ PxIdle
    /\ DcIdle
    /\ RsIdle
    /\ CsIdle
    /\ CcIdle
    /\ CtIdle
    /\ PuIdle

McOther == <<gcVars, nrVars, evmVars, pxVars, dcVars, rsVars, csVars, ccVars, ctVars, puVars>>

\* multicall-viem.ts:50-74  multicall(client, MulticallAddress, mcCalls) is
\* called: nothing to do for an empty list, else one request is sent
Multicall ==
    /\ mcPc = "idle"
    /\ IF Len(mcCalls) = 0
       THEN /\ mcPc' = "returned"
            /\ mcResult' = <<>>
            /\ UNCHANGED mcRequests
       ELSE /\ mcPc' = "awaiting"
            /\ mcRequests' = Append(mcRequests,
                                [to |-> MulticallAddress,
                                 data |-> EncodeCalls(requireSuccess, mcCalls)])
            /\ UNCHANGED mcResult
    /\ UNCHANGED <<mcCalls, mcChain, McOther>>

\* multicall-viem.ts:71-84  the request is answered
McAnswer ==
    /\ mcPc = "awaiting"
    /\ LET result == McClientCall(mcChain, mcRequests[Len(mcRequests)])
       IN CASE result.kind = "throw" ->
                  /\ mcPc' = "rejected"
                  /\ UNCHANGED mcResult
            [] result.kind = "nodata" ->
                  /\ mcPc' = "returned"
                  /\ mcResult' = <<>>
            [] OTHER ->
                  /\ mcPc' = "returned"
                  /\ mcResult' = DecodeResults(result.data)
    /\ UNCHANGED <<mcCalls, mcChain, mcRequests, McOther>>

NextMulticall ==
    \/ Multicall
    \/ McAnswer

SpecMulticall == InitMulticall /\ [][NextMulticall]_vars

\* what each call of the list does on the chain, in call order
McExpected ==
    [i \in 1..Len(mcCalls) |->
       [success |-> mcChain.outcome[mcCalls[i]].ok,
        returnData |-> mcChain.outcome[mcCalls[i]].bytes]]

\* all calls travel in one request to the aggregator, with requireSuccess false
McOneRequest ==
    mcPc # "idle" =>
        IF Len(mcCalls) = 0 THEN mcRequests = <<>>
        ELSE /\ Len(mcRequests) = 1
             /\ mcRequests[1].to = MulticallAddress
             /\ DecodeCalls(mcRequests[1].data) =
                    [requireSuccess |-> FALSE, calls |-> mcCalls]

\* C24 as stated: one request with requireSuccess false, and whenever
\* multicall returns, one (success, returnData) per input call in call order.
C24_OneResultPerCall ==
    /\ McOneRequest
    /\ mcPc = "returned" => mcResult = McExpected

\* C24, amended: one request with requireSuccess false carries all calls (none
\* is sent for an empty list); when the aggregator answers with data,
\* multicall returns one (success, returnData) per input call in call order, a
\* failing call being success = false at its own position, and when the answer
\* carries no data it returns the empty list; only a failed request makes
\* multicall reject, a failing call never does.
C24_OneResultPerCallIfAnswered ==
    /\ McOneRequest
    /\ mcPc = "returned" =>
          mcResult = IF mcChain.aggregator = "deployed" THEN McExpected ELSE <<>>
    /\ mcPc = "rejected" => mcChain.aggregator = "unreachable"

\* three calls answered by the aggregator, the second one failing between two
\* that succeed with different bytes
C24_Witness ==
    /\ mcPc = "returned"
    /\ mcChain.aggregator = "deployed"
    /\ Len(mcResult) = 3
    /\ mcResult[1].success /\ mcResult[1].returnData = <<170>>
    /\ ~mcResult[2].success /\ mcResult[2].returnData = <<8, 195>>
    /\ mcResult[3].success /\ mcResult[3].returnData = <<>>

(***************************************************************************)
(* processUserContract (src/groupcall/groupcall-viem.ts:170-366): one      *)
(* analysis run.  The chat (bot.api.sendMessage) delivers every message it *)
(* is given; deleting the processing message may fail.  The run uses the   *)
(* resolution loop above (RsOpenchain, RsFourByte, RsClassify) and         *)
(* groupcall, whose callbacks are awaited together.                        *)
(***************************************************************************)
PuCodeAnswers == {"throw", "undefined", "0x", "0x60cc"}

\* what evm.getSelectors() may hand over
PuSelectorLists ==
    {<<>>, <<SelA>>, <<SelB>>, <<SelA, SelB>>, <<SelB, SelA>>, <<SelA, SelA>>}

Str_unknown == <<"u","n","k","n","o","w","n">>

\* what client.call does for one read call of the run
PuCallResponses ==
    {[kind |-> "data", data |-> Hex(WordSmall(18))],
     [kind |-> "data", data |-> Hex(EncodeString(HelloBytes))],
     [kind |-> "data", data |-> Hex(ZeroWord \o ZeroWord \o ZeroWord \o ZeroWord)],
     [kind |-> "nodata"],
     [kind |-> "error", details |-> Str_ER \o Str_colonSpace \o Str_SomeReason],
     [kind |-> "errorNoDetails"]}

\* the i-th smallest member of a set of numbers
NthOf(S, k) == CHOOSE i \in S : Cardinality({j \in S : j <= i}) = k

\* the members of seq that lie in S, first occurrences only, in order
KeysIn(seq, S) ==
    LET firsts == {i \in 1..Len(seq) :
                      /\ seq[i] \in S
                      /\ \A j \in 1..(i - 1) : seq[j] # seq[i]}
    IN [k \in 1..Cardinality(firsts) |-> seq[NthOf(firsts, k)]]

\* JavaScript truthiness of a string, null or undefined
Truthy(v) == v.kind = "text" /\ v.text # <<>>

IsEmptyCodeOnlyAbsent(bytecode) == bytecode = "undefined"

\* groupcall-viem.ts:192  !bytecode || bytecode === "0x"
IsEmptyCode(bytecode) == ~HasCode(bytecode)

TopLevelCatchSilent(notices) == notices

\* groupcall-viem.ts:359-365  the catch of the whole run
TopLevelCatch(notices) == Append(notices, [kind |-> "failure"])

SelectorAtReversed(keys, index) == keys[Len(keys) + 1 - index]

\* groupcall-viem.ts:277  Object.keys(callableFunctions)[index]
SelectorAt(keys, index) == keys[index]

ReportSignatureRaw(signature) == signature

\* groupcall-viem.ts:327, 341, 354  func.signature || 'unknown'
ReportSignature(signature) ==
    IF Truthy(signature) THEN signature ELSE Text(Str_unknown)

\* groupcall-viem.ts:250-258  the entry the classification creates
NewEntry(signature, callable) ==
    [callable |-> callable, signature |-> signature,
     response |-> Undefined, decoded |-> Undefined, revert |-> Undefined]

\* groupcall-viem.ts:280-294  the entry after its call's result
EntryWithResult(entry, result) ==
    IF result.success
    THEN [entry EXCEPT !.response = result.returnData,
                       !.decoded = decodeResp(result.returnData).ret,
                       !.revert = Null]
    ELSE [entry EXCEPT !.response = Null,
                       !.decoded = Null,
                       !.revert = Text(result.revertReason)]

\* groupcall's callback for one call of the run; "0x" is the Hex value
\* without digits
PuCallback(resp) ==
    LET p == Callback(resp)
    IN IF p.state = "rejected" THEN p
       ELSE Fulfilled([p.value EXCEPT
                !.returnData = IF resp.kind = "data" THEN resp.data ELSE Hex(<<>>)])

\* groupcall-viem.ts:325-354  the lines of the report about one selector
ReportLine(selector, entry) ==
    [selector |-> selector,
     callable |-> entry.callable,
     signature |-> ReportSignature(entry.signature),
     shown |-> IF ~entry.callable THEN Null
               ELSE IF Truthy(entry.decoded) THEN entry.decoded
               ELSE IF Truthy(entry.revert) THEN entry.revert
               ELSE Null]

InitAnalyze ==
    /\ puPc = "idle"
    /\ puBytecode = <<>>
    /\ puSelectors = <<>>
    /\ puAnswers = <<>>
    /\ puLookups = <<>>
    /\ puResolved = <<>>
    /\ puCalls = <<>>
    /\ puEntries = <<>>
    /\ puNotices = <<>>
    /\ GcIdle
    /\ NrIdle
    /\ EvmIdle
    /\ PxIdle
    /\ DcIdle
    /\ RsIdle
    /\ CsIdle
    /\ CcIdle
    /\ McIdle
    /\ CtIdle

PuOther == <<gcVars, nrVars, evmVars, pxVars, dcVars, csVars, ccVars, mcVars, ctVars>>

\* groupcall-viem.ts:177-190  processUserContract is called: the processing
\* message is sent and the code is asked for
ProcessUserContract ==
    /\ puPc = "idle"
    /\ puPc' = "getCode"
    /\ UNCHANGED <<puBytecode, puSelectors, puAnswers, puLookups, puResolved,
                   puCalls, puEntries, puNotices, rsVars, PuOther>>

\* groupcall-viem.ts:190-208  the code arrives (or the request fails); an
\* empty code ends the run with the notice, any other is scanned for its
\* selectors and the resolution loop begins
PuGetCode ==
    /\ puPc = "getCode"
    /\ \E bytecode \in PuCodeAnswers :
          /\ puBytecode' = bytecode
          /\ IF bytecode = "throw"
             THEN /\ puNotices' = TopLevelCatch(puNotices)
                  /\ puPc' = "done"
                  /\ UNCHANGED <<puSelectors, rsVars>>
             ELSE IF IsEmptyCode(bytecode)
             THEN /\ puNotices' = Append(puNotices, [kind |-> "notContract"])
                  /\ puPc' = "done"
                  /\ UNCHANGED <<puSelectors, rsVars>>
             ELSE \E selectorsWith0x \in PuSelectorLists :
                  /\ puSelectors' = selectorsWith0x
                  /\ rsSelectors' = selectorsWith0x
                  /\ rsPos' = 1
                  /\ rsPc' = "openchain"
                  /\ puPc' = "resolving"
                  /\ UNCHANGED <<puNotices, rsResolved, rsLookups, rsCallable,
                                 rsNonCallable>>
    /\ UNCHANGED <<puAnswers, puLookups, puResolved, puCalls, puEntries, PuOther>>

\* groupcall-viem.ts:262-300  the calls of the callable selectors are built
\* and handed to groupcall; each result is stored under its selector.  A
\* rejecting groupcall is caught and leaves the entries as they are.
PuInvoke ==
    /\ puPc = "resolving"
    /\ rsPc = "classified"
    /\ LET order == KeysIn(rsSelectors, DOMAIN rsResolved)
           keys == KeysIn(rsSelectors, rsCallable)
           calls == [i \in 1..Len(keys) |->
                        [target |-> ContractAddr, callData |-> keys[i]]]
           entries == [k \in DOMAIN rsResolved |->
                          NewEntry(rsResolved[k], k \in rsCallable)]
       IN /\ puResolved' = order
          /\ puCalls' = calls
          /\ \E answers \in [rsCallable -> PuCallResponses] :
                LET promises == [i \in 1..Len(calls) |->
                                    PuCallback(answers[calls[i].callData])]
                    results == PromiseAllValues(promises)
                IN /\ puAnswers' = answers
                   /\ puEntries' =
                        IF \E i \in 1..Len(calls) : promises[i].state = "rejected"
                        THEN entries
                        ELSE [k \in DOMAIN entries |->
                                IF \E i \in 1..Len(results) : SelectorAt(keys, i) = k
                                THEN EntryWithResult(entries[k],
                                        results[CHOOSE i \in 1..Len(results) :
                                                    SelectorAt(keys, i) = k])
                                ELSE entries[k]]
    /\ puLookups' = rsLookups
    /\ puPc' = "report"
    /\ UNCHANGED <<puBytecode, puSelectors, puNotices, rsVars, PuOther>>

\* groupcall-viem.ts:302-365  the processing message is deleted and the
\* report is sent; a failing deletion is caught at the top level
PuReport ==
    /\ puPc = "report"
    /\ \E deleted \in BOOLEAN :
          puNotices' =
             IF deleted
             THEN Append(puNotices,
                     [kind |-> "report",
                      lines |-> [i \in 1..Len(puResolved) |->
                                   ReportLine(puResolved[i], puEntries[puResolved[i]])]])
             ELSE TopLevelCatch(puNotices)
    /\ puPc' = "done"
    /\ UNCHANGED <<puBytecode, puSelectors, puAnswers, puLookups, puResolved,
                   puCalls, puEntries, rsVars, PuOther>>

NextAnalyze ==
    \/ ProcessUserContract
    \/ PuGetCode
    \/ RsOpenchain
    \/ RsFourByte
    \/ RsClassify
    \/ PuInvoke
    \/ PuReport

SpecAnalyze == InitAnalyze /\ [][NextAnalyze]_vars

(***************************************************************************)
(* Properties of one analysis run                                          *)
(***************************************************************************)
PuStarted == puPc \notin {"idle", "getCode"}

PuEmptyFetched == PuStarted /\ puBytecode \in {"undefined", "0x"}

PuContractFetched == PuStarted /\ puBytecode = "0x60cc"

PuInvoked == puPc \in {"report", "done"} /\ PuContractFetched

\* C23: when the fetched bytecode is absent or "0x" the run ends with the
\* not-a-contract notice and nothing else has happened: no selector was
\* scanned, no signature looked up, no proxy examined, no read call made.
C23_EmptyBytecodeStops ==
    PuEmptyFetched =>
        /\ puPc = "done"
        /\ puNotices = <<[kind |-> "notContract"]>>
        /\ puSelectors = <<>>
        /\ rsPc = "idle"
        /\ rsLookups = <<>>
        /\ puCalls = <<>>
        /\ puAnswers = <<>>
        /\ pxPc = "idle"
        /\ rpcLog = <<>>

C23_Witness == PuEmptyFetched /\ puBytecode = "0x" /\ puPc = "done"

\* C22: a run sends at most one terminal message and has sent exactly one
\* when it ends: the failure notice when fetching the code failed, the
\* not-a-contract notice for an empty code, and for a contract either the
\* report or, when a later step failed, the failure notice, never both.
C22_ExactlyOneOutcome ==
    /\ Len(puNotices) <= 1
    /\ puPc # "done" => puNotices = <<>>
    /\ puPc = "done" =>
          /\ Len(puNotices) = 1
          /\ puNotices[1].kind =
                IF puBytecode = "throw" THEN "failure"
                ELSE IF puBytecode \in {"undefined", "0x"} THEN "notContract"
                ELSE puNotices[1].kind
          /\ puNotices[1].kind \in {"failure", "notContract", "report"}

\* a run that failed after its read calls were made
C22_Witness ==
    /\ puPc = "done"
    /\ puNotices = <<[kind |-> "failure"]>>
    /\ puCalls # <<>>

\* what the entry of a callable selector must hold after the answer resp
ExpectedEntry(signature, resp) ==
    IF Throws(resp)
    THEN [callable |-> TRUE, signature |-> signature, response |-> Null,
          decoded |-> Null, revert |-> Text(FailureOutcome(resp).revertReason)]
    ELSE LET returnData == IF resp.kind = "data" THEN resp.data ELSE Hex(<<>>)
         IN [callable |-> TRUE, signature |-> signature, response |-> returnData,
             decoded |-> decodeResp(returnData).ret, revert |-> Null]

\* C26: the calls handed to groupcall are one per callable selector and none
\* for any other, each to the analysed address with the selector itself as
\* calldata; the entry of each callable selector holds the outcome of its own
\* call: response and decoded value and no revert reason after a success, the
\* revert reason and neither response nor decoded value after a failure.
C26_OneCallPerCallable ==
    PuInvoked =>
        /\ Len(puCalls) = Cardinality(rsCallable)
        /\ \A k \in rsCallable :
              Cardinality({i \in 1..Len(puCalls) : puCalls[i].callData = k}) = 1
        /\ \A i \in 1..Len(puCalls) :
              /\ puCalls[i].target = ContractAddr
              /\ puCalls[i].callData \in rsCallable
              /\ isCallableSignature(rsResolved[puCalls[i].callData])
        /\ \A k \in rsNonCallable :
              /\ ~isCallableSignature(rsResolved[k])
              /\ puEntries[k] = NewEntry(rsResolved[k], FALSE)
        /\ DOMAIN puAnswers = rsCallable
        /\ \A k \in rsCallable :
              puEntries[k] = ExpectedEntry(rsResolved[k], puAnswers[k])

\* two callable selectors, the call of the first failed and the call of the
\* second returned a number
C26_Witness ==
    /\ PuInvoked
    /\ puSelectors = <<SelA, SelB>>
    /\ rsCallable = {SelA, SelB}
    /\ Throws(puAnswers[SelA])
    /\ puAnswers[SelB] = [kind |-> "data", data |-> Hex(WordSmall(18))]

\* the last lookup made for selector k
PuLastLookup(k) ==
    LET js == {j \in DOMAIN rsLookups : rsLookups[j].selector = k}
    IN rsLookups[CHOOSE j \in js : \A m \in js : m <= j]

\* the lookups for selector k ended without a signature: the last service
\* asked gave the selector back or nothing
PuLookupsFailed(k) ==
    \/ PuLastLookup(k).returned = k
    \/ PuLastLookup(k).returned = Undefined

\* what the report shows under a callable selector whose call was answered resp
ExpectedShown(resp) ==
    CASE resp.kind = "error" -> Text(Str_SomeReason)
      [] resp.kind = "errorNoDetails" -> Text(Str_ER)
      [] resp.kind = "nodata" -> Text(Str_ER)
      [] resp.kind = "data" /\ resp.data = Hex(WordSmall(18)) -> Text(<<"1", "8">>)
      [] resp.kind = "data" /\ resp.data = Hex(EncodeString(HelloBytes)) -> Text(Str_Hello)
      [] OTHER -> Text(Str_couldNotDecode)

\* C21: a run on a contract gets through every selector whatever the lookups
\* and the read calls did, and its report has one line per selector: the
\* signature found or "unknown" when the lookups for it failed or found
\* nothing, and for a callable selector the decoded value of its own call,
\* the revert reason when that call failed, or the fallback literal when the
\* answer could not be decoded, independently of what happened to the other
\* selectors.
C21_FailuresKeepReport ==
    /\ (puPc = "done" /\ PuContractFetched) =>
          /\ rsPc = "classified"
          /\ puLookups = rsLookups
          /\ \A i \in 1..Len(puSelectors) :
                \E j \in 1..Len(puResolved) : puResolved[j] = puSelectors[i]
    /\ (puPc = "done" /\ puNotices[1].kind = "report") =>
          LET lines == puNotices[1].lines
          IN /\ Len(lines) = Len(puResolved)
             /\ \A i \in 1..Len(lines) :
                   LET k == puResolved[i]
                   IN /\ lines[i].selector = k
                      /\ lines[i].signature =
                            IF PuLookupsFailed(k) THEN Text(Str_unknown)
                            ELSE PuLastLookup(k).returned
                      /\ lines[i].callable = (k \in rsCallable)
                      /\ lines[i].shown =
                            IF k \in rsCallable THEN ExpectedShown(puAnswers[k])
                            ELSE Null

\* a report for two selectors: no lookup succeeded for the first and its call
\* failed, the second was resolved and its call returned a number
C21_Witness ==
    /\ puPc = "done"
    /\ puNotices[1].kind = "report"
    /\ puSelectors = <<SelA, SelB>>
    /\ PuLookupsFailed(SelA)
    /\ \E j \in DOMAIN rsLookups : rsLookups[j].selector = SelA /\ rsLookups[j].fault
    /\ rsCallable = {SelA, SelB}
    /\ Throws(puAnswers[SelA])
    /\ rsResolved[SelB] = Sig_name
    /\ puAnswers[SelB].kind = "data"

====
